---------------------------- MODULE Spec2Model ----------------------------
(***************************************************************************)
(* Model of the emesh-sp rule database (qca/src/emesh-sp/sp_mapdb.c):      *)
(* the precedence buckets (RCU lists), the rule-id hash index, the rule    *)
(* count, the spinlock sp_mapdb_lock, the single_writer bit lock, the     *)
(* update / flush write paths and the five classify read paths.            *)
(*                                                                         *)
(* Pointers are integers: node slots are 1..MaxNodes, the list head of     *)
(* bucket i is PrecHead(i) = -(i+1), NULL is 0.                                *)
(***************************************************************************)
EXTENDS Integers, Sequences, FiniteSets, TLC

(***************************************************************************)
(* Bounds of the model.                                                    *)
(***************************************************************************)
\* number of precedence buckets (0xFF in the driver, see sp_mapdb.c:503)
SP_MAPDB_RULE_MAX_PRECEDENCENUM == 2
\* capacity of the rule table
SP_MAPDB_RULE_MAX == 2
\* number of memory slots kzalloc can hand out for rule nodes
MaxNodes == 3

(***************************************************************************)
(* Program constants.                                                      *)
(***************************************************************************)
SP_MAPDB_USE_UP == 8
SP_MAPDB_USE_DSCP == 9
SP_MAPDB_NO_MATCH == 10
SP_MAPDB_RULE_DEFAULT_PCP == 0
SP_RULE_INVALID_DSCP_REMARK == 255
SP_RULE_INVALID_VLAN_PCP_REMARK == 254
SP_RULE_INVALID_SERVICE_CLASS_ID == 253
SP_RULE_INVALID_PRIORITY == 252
SP_RULE_INVALID_RULE_ID == 65535
SP_RULE_INVALID_MSCS_TID_BITMAP == 0
SP_RULE_INVALID_VLAN_TCI == 65535
IPPROTO_TCP == 6
IPPROTO_UDP == 17

NULL == 0
LIST_POISON2 == -1000

Nodes == 1..MaxNodes
Buckets == 0..(SP_MAPDB_RULE_MAX_PRECEDENCENUM - 1)
PrecHead(i) == -(i + 1)
Heads == {PrecHead(i) : i \in Buckets}
BucketOf(h) == -h - 1

(***************************************************************************)
(* Bit operations on naturals.                                             *)
(***************************************************************************)
\* ^= in place of &=: the bits of the mask are toggled, not selected
RECURSIVE BitAnd_Toggle(_, _)
BitAnd_Toggle(a, b) ==
    IF a = 0 /\ b = 0 THEN 0
    ELSE (((a % 2) + (b % 2)) % 2) + 2 * BitAnd_Toggle(a \div 2, b \div 2)

RECURSIVE BitAnd(_, _)
BitAnd(a, b) ==
    IF a = 0 \/ b = 0 THEN 0
    ELSE (a % 2) * (b % 2) + 2 * BitAnd(a \div 2, b \div 2)

RECURSIVE Pow2(_)
Pow2(n) == IF n = 0 THEN 1 ELSE 2 * Pow2(n - 1)

\* (int16_t) of a 16-bit value
ToInt16(x) == IF x >= 32768 THEN x - 65536 ELSE x

(***************************************************************************)
(* struct sp_rule (with struct sp_rule_inner flattened).                   *)
(***************************************************************************)
ZeroAddr6 == <<0, 0, 0, 0>>

\* the content of a freshly kzalloc'ed node: every byte zero
ZeroRule ==
    [ id |-> 0, classifier_type |-> "0", rule_precedence |-> 0, cmd |-> "0",
      flags |-> {}, flags_sawf |-> {},
      user_priority |-> 0, sa |-> 0, da |-> 0, vlan_id |-> 0, vlan_pcp |-> 0,
      dscp |-> 0, src_ipv4_addr |-> 0, dst_ipv4_addr |-> 0,
      src_ipv4_addr_mask |-> 0, dst_ipv4_addr_mask |-> 0,
      src_ipv6_addr |-> ZeroAddr6, dst_ipv6_addr |-> ZeroAddr6,
      src_ipv6_addr_mask |-> ZeroAddr6, dst_ipv6_addr_mask |-> ZeroAddr6,
      protocol_number |-> 0, src_port |-> 0, dst_port |-> 0,
      src_port_range_start |-> 0, src_port_range_end |-> 0,
      dst_port_range_start |-> 0, dst_port_range_end |-> 0,
      ip_version_type |-> 0, match_pattern_value |-> 0, match_pattern_mask |-> 0,
      ifindex |-> 0,
      rule_output |-> 0, dscp_remark |-> 0, vlan_pcp_remark |-> 0,
      service_class_id |-> 0, mscs_tid_bitmap |-> 0, priority_limit |-> 0,
      service_interval_dl |-> 0, burst_size_dl |-> 0,
      service_interval_ul |-> 0, burst_size_ul |-> 0 ]

\* a request as sp_mapdb_rule_receive builds it before filling attributes
BaseRule ==
    [ ZeroRule EXCEPT !.service_class_id = SP_RULE_INVALID_SERVICE_CLASS_ID,
                      !.dscp_remark = SP_RULE_INVALID_DSCP_REMARK,
                      !.vlan_pcp_remark = SP_RULE_INVALID_VLAN_PCP_REMARK,
                      !.mscs_tid_bitmap = SP_RULE_INVALID_MSCS_TID_BITMAP ]

(***************************************************************************)
(* The classify inputs: the skb fields the generic matcher parses, the     *)
(* MAC pair handed in beside it, and struct sp_rule_input_params.          *)
(***************************************************************************)
ZeroParams ==
    [ ip_version_type |-> 0, dst_mac |-> 0, src_mac |-> 0, dev_addr |-> 0,
      ifindex |-> 0, dst_port |-> 0, src_port |-> 0,
      dst_ipv4 |-> 0, src_ipv4 |-> 0,
      dst_ipv6 |-> ZeroAddr6, src_ipv6 |-> ZeroAddr6,
      protocol |-> 0, dscp |-> 0, vlan_tci |-> SP_RULE_INVALID_VLAN_TCI,
      spi |-> 0 ]

BasePkt ==
    [ priority |-> 0, protocol |-> "ETH_P_IP", h_proto |-> "ETH_P_IP",
      h_vlan_TCI |-> 0, ip_pull |-> TRUE, tos |-> 0, saddr |-> 0, daddr |-> 0,
      ip_protocol |-> IPPROTO_UDP, l4_pull |-> TRUE, source |-> 0, dest |-> 0,
      smac |-> 0, dmac |-> 0, params |-> ZeroParams ]

(***************************************************************************)
(* sp_mapdb_rule_match(): the generic (sensed) matcher.  It only reads.    *)
(***************************************************************************)
\* !(compare_result ^ sense) is the failure test of every sensed field
SenseOk(compare_result, sense) == compare_result # sense

IpFlags == {"SRC_IPV4", "DST_IPV4", "SRC_PORT", "DST_PORT", "DSCP", "PROTOCOL"}

\* lines 389-494: the fields read behind the IPv4 header
MatchIpFields(pkt, rule) ==
    LET flags == rule.flags
        l4 == pkt.ip_protocol \in {IPPROTO_TCP, IPPROTO_UDP}
        src_port == IF l4 THEN pkt.source ELSE 0
        dst_port == IF l4 THEN pkt.dest ELSE 0
    IN  /\ ("DSCP" \in flags) =>
              SenseOk((pkt.tos \div 4) = rule.dscp, "DSCP_SENSE" \in flags)
        /\ ("SRC_IPV4" \in flags) =>
              SenseOk(pkt.saddr = rule.src_ipv4_addr, "SRC_IPV4_SENSE" \in flags)
        /\ ("DST_IPV4" \in flags) =>
              SenseOk(pkt.daddr = rule.dst_ipv4_addr, "DST_IPV4_SENSE" \in flags)
        /\ ("PROTOCOL" \in flags) =>
              SenseOk(pkt.ip_protocol = rule.protocol_number, "PROTOCOL_SENSE" \in flags)
        /\ l4 => pkt.l4_pull
        /\ ("SRC_PORT" \in flags) =>
              SenseOk(src_port = rule.src_port, "SRC_PORT_SENSE" \in flags)
        /\ ("DST_PORT" \in flags) =>
              SenseOk(dst_port = rule.dst_port, "DST_PORT_SENSE" \in flags)

\* sp_mapdb_rule_match without the skb->protocol test of line 374
sp_mapdb_rule_match_AnyProtocol(pkt, rule) ==
    LET flags == rule.flags IN
    IF "ALWAYS_TRUE" \in flags THEN TRUE
    ELSE IF "UP" \in flags
            /\ ~SenseOk(pkt.priority = rule.user_priority, "UP_SENSE" \in flags)
         THEN FALSE
    ELSE IF "SOURCE_MAC" \in flags
            /\ ~SenseOk(pkt.smac = rule.sa, "SOURCE_MAC_SENSE" \in flags)
         THEN FALSE
    ELSE IF "DST_MAC" \in flags
            /\ ~SenseOk(pkt.dmac = rule.da, "DST_MAC_SENSE" \in flags)
         THEN FALSE
    ELSE IF "VLAN_ID" \in flags
            /\ (IF pkt.h_proto = "ETH_P_8021Q"
                THEN ~SenseOk(ToInt16(pkt.h_vlan_TCI) = rule.vlan_id,
                              "VLAN_ID_SENSE" \in flags)
                ELSE TRUE)
         THEN FALSE
    ELSE IF flags \cap IpFlags = {} THEN TRUE
    ELSE IF ~pkt.ip_pull THEN FALSE
    ELSE MatchIpFields(pkt, rule)

\* sp_mapdb_rule_match without the else branch of line 366: an untagged frame
\* skips the VLAN test
sp_mapdb_rule_match_UntaggedPasses(pkt, rule) ==
    LET flags == rule.flags IN
    IF "ALWAYS_TRUE" \in flags THEN TRUE
    ELSE IF "UP" \in flags
            /\ ~SenseOk(pkt.priority = rule.user_priority, "UP_SENSE" \in flags)
         THEN FALSE
    ELSE IF "SOURCE_MAC" \in flags
            /\ ~SenseOk(pkt.smac = rule.sa, "SOURCE_MAC_SENSE" \in flags)
         THEN FALSE
    ELSE IF "DST_MAC" \in flags
            /\ ~SenseOk(pkt.dmac = rule.da, "DST_MAC_SENSE" \in flags)
         THEN FALSE
    ELSE IF "VLAN_ID" \in flags
            /\ (IF pkt.h_proto = "ETH_P_8021Q"
                THEN ~SenseOk(ToInt16(pkt.h_vlan_TCI) = rule.vlan_id,
                              "VLAN_ID_SENSE" \in flags)
                ELSE FALSE)
         THEN FALSE
    ELSE IF flags \cap IpFlags = {} THEN TRUE
    ELSE IF pkt.protocol # "ETH_P_IP" THEN FALSE
    ELSE IF ~pkt.ip_pull THEN FALSE
    ELSE MatchIpFields(pkt, rule)

sp_mapdb_rule_match(pkt, rule) ==
    LET flags == rule.flags IN
    IF "ALWAYS_TRUE" \in flags THEN TRUE
    ELSE IF "UP" \in flags
            /\ ~SenseOk(pkt.priority = rule.user_priority, "UP_SENSE" \in flags)
         THEN FALSE
    ELSE IF "SOURCE_MAC" \in flags
            /\ ~SenseOk(pkt.smac = rule.sa, "SOURCE_MAC_SENSE" \in flags)
         THEN FALSE
    ELSE IF "DST_MAC" \in flags
            /\ ~SenseOk(pkt.dmac = rule.da, "DST_MAC_SENSE" \in flags)
         THEN FALSE
    ELSE IF "VLAN_ID" \in flags
            /\ (IF pkt.h_proto = "ETH_P_8021Q"
                THEN ~SenseOk(ToInt16(pkt.h_vlan_TCI) = rule.vlan_id,
                              "VLAN_ID_SENSE" \in flags)
                ELSE TRUE)
         THEN FALSE
    ELSE IF flags \cap IpFlags = {} THEN TRUE
    ELSE IF pkt.protocol # "ETH_P_IP" THEN FALSE
    ELSE IF ~pkt.ip_pull THEN FALSE
    ELSE MatchIpFields(pkt, rule)

(***************************************************************************)
(* sp_mapdb_rule_match_sawf(): the SAWF-family matcher.  It writes the     *)
(* masked address / SPI back into *params, so it yields the verdict and    *)
(* the params as it leaves them.  The fields are tried in source order;    *)
(* the first failure returns.                                              *)
(***************************************************************************)
And6(a, m) == [k \in 1..4 |-> BitAnd(a[k], m[k])]

SawfStages == 16

\* DstMacOk with the netdevice fallback open to every rule type
DstMacOk_AnyType(rule, p) ==
    \/ p.dst_mac = rule.da
    \/ p.dev_addr = rule.da /\ p.ifindex = rule.ifindex

\* lines 826-849: the destination MAC, or for a SAWF_SCS rule the address
\* and index of the netdevice
DstMacOk(rule, p) ==
    \/ p.dst_mac = rule.da
    \/ /\ rule.classifier_type = "SAWF_SCS"
       /\ p.dev_addr = rule.da
       /\ p.ifindex = rule.ifindex

SawfStage(k, rule, p) ==
    LET f == rule.flags_sawf
        Pass == [ok |-> TRUE, params |-> p]
        Test(c) == [ok |-> c, params |-> p]
    IN
    CASE k = 1 ->
           IF "IP_VERSION_TYPE" \in f
           THEN Test(p.ip_version_type = rule.ip_version_type) ELSE Pass
      [] k = 2 ->
           IF "DST_MAC" \in f
           THEN Test(DstMacOk(rule, p)) ELSE Pass
      [] k = 3 ->
           IF "DST_PORT" \in f THEN Test(p.dst_port = rule.dst_port) ELSE Pass
      [] k = 4 ->
           IF {"DST_PORT_RANGE_START", "DST_PORT_RANGE_END"} \subseteq f
           THEN Test(/\ p.dst_port >= rule.dst_port_range_start
                     /\ p.dst_port <= rule.dst_port_range_end)
           ELSE Pass
      [] k = 5 ->
           IF "DST_IPV4" \in f
           THEN LET q == IF "DST_IPV4_MASK" \in f
                         THEN [p EXCEPT !.dst_ipv4 = BitAnd(@, rule.dst_ipv4_addr_mask)]
                         ELSE p
                IN [ok |-> q.dst_ipv4 = rule.dst_ipv4_addr, params |-> q]
           ELSE Pass
      [] k = 6 ->
           IF "SOURCE_MAC" \in f THEN Test(p.src_mac = rule.sa) ELSE Pass
      [] k = 7 ->
           IF "SRC_IPV6" \in f
           THEN LET q == IF "SRC_IPV6_MASK" \in f
                         THEN [p EXCEPT !.src_ipv6 = And6(@, rule.src_ipv6_addr_mask)]
                         ELSE p
                IN [ok |-> q.src_ipv6 = rule.src_ipv6_addr, params |-> q]
           ELSE Pass
      [] k = 8 ->
           IF "DST_IPV6" \in f
           THEN LET q == IF "DST_IPV6_MASK" \in f
                         THEN [p EXCEPT !.dst_ipv6 = And6(@, rule.dst_ipv6_addr_mask)]
                         ELSE p
                IN [ok |-> q.dst_ipv6 = rule.dst_ipv6_addr, params |-> q]
           ELSE Pass
      [] k = 9 ->
           IF "SRC_PORT" \in f THEN Test(p.src_port = rule.src_port) ELSE Pass
      [] k = 10 ->
           IF {"SRC_PORT_RANGE_START", "SRC_PORT_RANGE_END"} \subseteq f
           THEN Test(/\ p.src_port >= rule.src_port_range_start
                     /\ p.src_port <= rule.src_port_range_end)
           ELSE Pass
      [] k = 11 ->
           IF "SRC_IPV4" \in f
           THEN LET q == IF "SRC_IPV4_MASK" \in f
                         THEN [p EXCEPT !.src_ipv4 = BitAnd(@, rule.src_ipv4_addr_mask)]
                         ELSE p
                IN [ok |-> q.src_ipv4 = rule.src_ipv4_addr, params |-> q]
           ELSE Pass
      [] k = 12 ->
           IF "PROTOCOL" \in f THEN Test(p.protocol = rule.protocol_number) ELSE Pass
      [] k = 13 ->
           IF "DSCP" \in f THEN Test(p.dscp = rule.dscp) ELSE Pass
      [] k = 14 ->
           IF "VLAN_PCP" \in f
           THEN Test(/\ p.vlan_tci # SP_RULE_INVALID_VLAN_TCI
                     /\ (p.vlan_tci \div 8192) = rule.vlan_pcp)
           ELSE Pass
      [] k = 15 ->
           IF "VLAN_ID" \in f
           THEN Test(/\ p.vlan_tci # SP_RULE_INVALID_VLAN_TCI
                     /\ (p.vlan_tci % 4096) = rule.vlan_id)
           ELSE Pass
      [] OTHER ->
           IF "SCS_SPI" \in f
           THEN LET q == [p EXCEPT !.spi = BitAnd(@, rule.match_pattern_mask)]
                IN [ok |-> q.spi = rule.match_pattern_value, params |-> q]
           ELSE Pass

RECURSIVE SawfFrom(_, _, _)
SawfFrom(k, rule, p) ==
    IF k > SawfStages THEN [ok |-> TRUE, params |-> p]
    ELSE LET r == SawfStage(k, rule, p)
         IN IF r.ok THEN SawfFrom(k + 1, rule, r.params) ELSE r

sp_mapdb_rule_match_sawf(rule, params) == SawfFrom(1, rule, params)

(***************************************************************************)
(* The processes.                                                          *)
(***************************************************************************)
Writers == {"w1", "w2"}
Readers == {"r1"}
Flusher == "flush"
Kinds == {"mesh", "sawf", "scs", "mscs", "latency"}

VARIABLES
    next,             \* list_head.next of every node slot and bucket head
    prev,             \* list_head.prev of every node slot and bucket head
    nstate,           \* slot: "free", "priv", "linked", "unlinked", "retired"
    nrule,            \* slot: the bytes of node->rule (stale once freed)
    gp,               \* retired slot: whom its grace period still waits for
    rule_id_hashmap,  \* the hash chain: rule_node pointer of every hashentry
    rule_count,       \* rule_manager.rule_count
    sp_mapdb_lock,    \* holder of the spinlock, or "free"
    single_writer,    \* bit 0 of single_writer
    wpc, wreq, wnode, wcur, wres,  \* sp_mapdb_rule_update() per caller
    wdirty,           \* history: this call changed buckets, index or count
    wnotes,           \* history: notifier calls made by this call
    fpc,              \* sp_mapdb_ruletable_flush()
    rpc, rkind, rpass, ri, rcur, rdepth, rpkt, rin, rout,  \* classify calls
    rdang,            \* the slot rcur names was freed under the reader
    rlast             \* the rule the reader last read from a node

storeVars == <<next, prev, nstate, nrule, gp, rule_id_hashmap, rule_count>>
lockVars == <<sp_mapdb_lock, single_writer>>
writerVars == <<wpc, wreq, wnode, wcur, wres, wdirty, wnotes>>
readerVars == <<rpc, rkind, rpass, ri, rcur, rdepth, rpkt, rin, rout, rdang, rlast>>
vars == <<storeVars, lockVars, writerVars, fpc, readerVars>>

NoReq == [cmd |-> "NULL"]
NoOut == [kind |-> "none"]
NoRule == [id |-> -1]

(***************************************************************************)
(* The RCU list primitives (include/linux/rculist.h), on the pair of       *)
(* pointer maps L = [next, prev].                                          *)
(***************************************************************************)
Lists == [next |-> next, prev |-> prev]

\* __list_add_rcu(new, head, head->next)
list_add_rcu(L, new, head) ==
    LET first == L.next[head]
        L1 == [L EXCEPT !.next[new] = first, !.prev[new] = head]
        L2 == [L1 EXCEPT !.next[head] = new]
    IN  [L2 EXCEPT !.prev[first] = new]

\* __list_del(entry->prev, entry->next); entry->prev = LIST_POISON2
list_del_rcu(L, entry) ==
    LET p == L.prev[entry]
        n == L.next[entry]
        L1 == [L EXCEPT !.prev[n] = p]
        L2 == [L1 EXCEPT !.next[p] = n]
    IN  [L2 EXCEPT !.prev[entry] = LIST_POISON2]

list_replace_rcu(L, old, new) ==
    LET n == L.next[old]
        p == L.prev[old]
        L1 == [L EXCEPT !.next[new] = n, !.prev[new] = p]
        L2 == [L1 EXCEPT !.next[p] = new]
        L3 == [L2 EXCEPT !.prev[n] = new]
    IN  [L3 EXCEPT !.prev[old] = LIST_POISON2]

\* the nodes a traversal of bucket i meets now, in order
RECURSIVE Walk(_, _, _, _)
Walk(nx, p, h, fuel) ==
    IF p = h \/ p \notin Nodes \/ fuel = 0 THEN <<>>
    ELSE <<p>> \o Walk(nx, nx[p], h, fuel - 1)

BucketNodes(i) == Walk(next, next[PrecHead(i)], PrecHead(i), MaxNodes)
SeqSet(s) == {s[k] : k \in 1..Len(s)}
LinkedNodes == UNION {SeqSet(BucketNodes(i)) : i \in Buckets}

\* what sp_mapdb_rule_update() and flush may change, as a value
Table ==
    [ buckets |-> [i \in Buckets |-> BucketNodes(i)],
      index |-> rule_id_hashmap,
      rules |-> [n \in LinkedNodes |-> nrule[n]],
      count |-> rule_count ]

(***************************************************************************)
(* sp_mapdb_rules_init() and the idle processes.                           *)
(***************************************************************************)
Init ==
    /\ next = [p \in Nodes \cup Heads |-> IF p \in Heads THEN p ELSE NULL]
    /\ prev = [p \in Nodes \cup Heads |-> IF p \in Heads THEN p ELSE NULL]
    /\ nstate = [n \in Nodes |-> "free"]
    /\ nrule = [n \in Nodes |-> ZeroRule]
    /\ gp = [n \in Nodes |-> {}]
    /\ rule_id_hashmap = <<>>
    /\ rule_count = 0
    /\ sp_mapdb_lock = "free"
    /\ single_writer = 0
    /\ wpc = [w \in Writers |-> "idle"]
    /\ wreq = [w \in Writers |-> NoReq]
    /\ wnode = [w \in Writers |-> NULL]
    /\ wcur = [w \in Writers |-> NULL]
    /\ wres = [w \in Writers |-> "NONE"]
    /\ wdirty = [w \in Writers |-> FALSE]
    /\ wnotes = [w \in Writers |-> <<>>]
    /\ fpc = "idle"
    /\ rpc = [r \in Readers |-> "idle"]
    /\ rkind = [r \in Readers |-> "none"]
    /\ rpass = [r \in Readers |-> 0]
    /\ ri = [r \in Readers |-> 0]
    /\ rcur = [r \in Readers |-> NULL]
    /\ rdepth = [r \in Readers |-> 0]
    /\ rpkt = [r \in Readers |-> BasePkt]
    /\ rin = [r \in Readers |-> BasePkt]
    /\ rout = [r \in Readers |-> NoOut]
    /\ rdang = [r \in Readers |-> FALSE]
    /\ rlast = [r \in Readers |-> NoRule]

(***************************************************************************)
(* RCU: call_rcu() retires a slot; the callback sp_rule_destroy_rcu() runs *)
(* once every reader that was inside rcu_read_lock() at that time has left *)
(* and the holder of the spinlock at that time (a section with preemption  *)
(* disabled, which a grace period waits for as well) has released it.      *)
(***************************************************************************)
InRcu == {r \in Readers : rdepth[r] > 0}

\* the holder of the spinlock, if there is one
InSpinlock == IF sp_mapdb_lock = "free" THEN {} ELSE {sp_mapdb_lock}

\* readers that hold a pointer into the lists
Scanning == {r \in Readers : rpc[r] = "scan"}

Slots == [nstate |-> nstate, nrule |-> nrule, next |-> next, prev |-> prev]

\* The bytes of a slot that is off the lists can be read only through a
\* pointer a reader loaded while the slot was linked.  When no reader holds
\* any pointer they can be read by nobody any more (kzalloc() zeroes a slot
\* before it is used again) and are dropped from the state.
Drop(S, dead) ==
    [ nstate |-> S.nstate,
      nrule |-> [n \in Nodes |-> IF n \in dead THEN ZeroRule ELSE S.nrule[n]],
      next |-> [p \in Nodes \cup Heads |-> IF p \in dead THEN NULL ELSE S.next[p]],
      prev |-> [p \in Nodes \cup Heads |-> IF p \in dead THEN NULL ELSE S.prev[p]] ]

\* call_rcu(&node->rcu, sp_rule_destroy_rcu)
call_rcu(S, g, n) ==
    LET R == IF Scanning = {} THEN Drop(S, {n}) ELSE S
    IN  [ slots |-> [R EXCEPT !.nstate[n] = "retired"],
          gp |-> [g EXCEPT ![n] = InRcu \cup InSpinlock] ]

\* rcu_read_unlock() of the outermost section of r, or its spin_unlock()
QuiesceGp(g, r) == [n \in Nodes |-> g[n] \ {r}]

\* kfree(): the slot returns to the allocator.  A load from it is undefined
\* from now on (see ReadOops), so its bytes are no part of the state.
kfree(S, n) == [Drop(S, {n}) EXCEPT !.nstate[n] = "free"]

\* kzalloc(): a free slot.  Which one is observable only through a
\* stale pointer, so without readers on the lists the lowest is taken.
FreeSlots ==
    LET free == {n \in Nodes : nstate[n] = "free"}
    IN  IF Scanning = {} THEN {n \in free : \A m \in free : n <= m} ELSE free

\* the callback run without waiting for the grace period
sp_rule_destroy_rcu_AtOnce(n) ==
    /\ nstate[n] = "retired"
    /\ LET S == kfree(Slots, n)
       IN  nstate' = S.nstate /\ nrule' = S.nrule /\ next' = S.next /\ prev' = S.prev
    /\ rdang' = [r \in Readers |-> rdang[r] \/ (rpc[r] = "scan" /\ rcur[r] = n)]
    /\ UNCHANGED <<gp, rule_id_hashmap, rule_count, lockVars,
                   writerVars, fpc, rpc, rkind, rpass, ri, rcur, rdepth, rpkt,
                   rin, rout, rlast>>

sp_rule_destroy_rcu(n) ==
    /\ nstate[n] = "retired"
    /\ gp[n] = {}
    /\ LET S == kfree(Slots, n)
       IN  nstate' = S.nstate /\ nrule' = S.nrule /\ next' = S.next /\ prev' = S.prev
    /\ rdang' = [r \in Readers |-> rdang[r] \/ (rpc[r] = "scan" /\ rcur[r] = n)]
    /\ UNCHANGED <<gp, rule_id_hashmap, rule_count, lockVars,
                   writerVars, fpc, rpc, rkind, rpass, ri, rcur, rdepth, rpkt,
                   rin, rout, rlast>>

(***************************************************************************)
(* sp_mapdb_search_hashentry(): position in the chain of the first entry   *)
(* whose node carries (ruleid, rule_type); 0 for NULL.                     *)
(***************************************************************************)
\* sp_mapdb_search_hashentry comparing the rule id alone
sp_mapdb_search_hashentry_IdOnly(ruleid, rule_type) ==
    LET hits == {k \in 1..Len(rule_id_hashmap) : nrule[rule_id_hashmap[k]].id = ruleid}
    IN  IF hits = {} THEN 0 ELSE CHOOSE k \in hits : \A j \in hits : k <= j

sp_mapdb_search_hashentry(ruleid, rule_type) ==
    LET hits == {k \in 1..Len(rule_id_hashmap) :
                    /\ nrule[rule_id_hashmap[k]].id = ruleid
                    /\ nrule[rule_id_hashmap[k]].classifier_type = rule_type}
    IN  IF hits = {} THEN 0 ELSE CHOOSE k \in hits : \A j \in hits : k <= j

\* hash_add(): the new entry goes to the front of its chain
hash_add(map, node) == <<node>> \o map

\* hash_del() of the first entry of the chain instead of the one found
hash_del_first(map, k) == Tail(map)

\* hash_del() + kfree(hashentry)
hash_del(map, k) == [j \in 1..(Len(map) - 1) |-> IF j < k THEN map[j] ELSE map[j + 1]]

(***************************************************************************)
(* sp_mapdb_rule_update(): one caller w.                                   *)
(***************************************************************************)
\* history: did this step of w change the buckets, the index or the count
Touch(w) == wdirty' = [wdirty EXCEPT ![w] = @ \/ (Table' # Table)]

\* lines 652-654: a NULL request returns before the bit lock is tried
UpdateNull(w) ==
    /\ wpc[w] = "idle"
    /\ wpc' = [wpc EXCEPT ![w] = "ret"]
    /\ wres' = [wres EXCEPT ![w] = "ERR_NEWRULE_NULLPTR"]
    /\ UNCHANGED <<storeVars, lockVars, wreq, wnode, wcur, wnotes, fpc, readerVars>>
    /\ Touch(w)

\* UpdateBusy leaving through the clear_bit_unlock() of line 677
UpdateBusy_Unlocks(w, req) ==
    /\ wpc[w] = "idle"
    /\ single_writer = 1
    /\ req # NoReq
    /\ single_writer' = 0
    /\ wpc' = [wpc EXCEPT ![w] = "ret"]
    /\ wres' = [wres EXCEPT ![w] = "ERR_SINGLE_WRITER"]
    /\ UNCHANGED <<storeVars, sp_mapdb_lock, wreq, wnode, wcur, wnotes, fpc, readerVars>>
    /\ Touch(w)

\* lines 656-659: test_and_set_bit_lock() finds the bit set
UpdateBusy(w, req) ==
    /\ wpc[w] = "idle"
    /\ single_writer = 1
    /\ req # NoReq
    /\ wpc' = [wpc EXCEPT ![w] = "ret"]
    /\ wres' = [wres EXCEPT ![w] = "ERR_SINGLE_WRITER"]
    /\ UNCHANGED <<storeVars, lockVars, wreq, wnode, wcur, wnotes, fpc, readerVars>>
    /\ Touch(w)

\* lines 656-674: the bit is taken and the command dispatched
UpdateEnter(w, req) ==
    /\ wpc[w] = "idle"
    /\ single_writer = 0
    /\ single_writer' = 1
    /\ wreq' = [wreq EXCEPT ![w] = req]
    /\ wpc' = [wpc EXCEPT ![w] =
                 CASE req.cmd = "DELETE" -> "del"
                   [] req.cmd = "ADD" -> "add"
                   [] OTHER -> "unlock"]
    /\ wres' = [wres EXCEPT ![w] =
                 IF req.cmd \in {"DELETE", "ADD"} THEN "NONE" ELSE "ERR_UNKNOWNBIT"]
    /\ UNCHANGED <<storeVars, sp_mapdb_lock, wnode, wcur, wdirty, wnotes, fpc, readerVars>>

\* Unlock returning without the clear_bit_unlock() of line 676
Unlock_KeepsBit(w) ==
    /\ wpc[w] = "unlock"
    /\ wpc' = [wpc EXCEPT ![w] = "idle"]
    /\ wreq' = [wreq EXCEPT ![w] = NoReq]
    /\ wnode' = [wnode EXCEPT ![w] = NULL]
    /\ wcur' = [wcur EXCEPT ![w] = NULL]
    /\ wres' = [wres EXCEPT ![w] = "NONE"]
    /\ wdirty' = [wdirty EXCEPT ![w] = FALSE]
    /\ wnotes' = [wnotes EXCEPT ![w] = <<>>]
    /\ UNCHANGED <<storeVars, lockVars, fpc, readerVars>>

\* lines 676-678: clear_bit_unlock(), and the call returns wres[w]
Unlock(w) ==
    /\ wpc[w] = "unlock"
    /\ single_writer' = 0
    /\ wpc' = [wpc EXCEPT ![w] = "idle"]
    /\ wreq' = [wreq EXCEPT ![w] = NoReq]
    /\ wnode' = [wnode EXCEPT ![w] = NULL]
    /\ wcur' = [wcur EXCEPT ![w] = NULL]
    /\ wres' = [wres EXCEPT ![w] = "NONE"]
    /\ wdirty' = [wdirty EXCEPT ![w] = FALSE]
    /\ wnotes' = [wnotes EXCEPT ![w] = <<>>]
    /\ UNCHANGED <<storeVars, sp_mapdb_lock, fpc, readerVars>>

\* a call that never held the bit has returned wres[w]
Return(w) ==
    /\ wpc[w] = "ret"
    /\ wpc' = [wpc EXCEPT ![w] = "idle"]
    /\ wres' = [wres EXCEPT ![w] = "NONE"]
    /\ wdirty' = [wdirty EXCEPT ![w] = FALSE]
    /\ UNCHANGED <<storeVars, lockVars, wreq, wnode, wcur, wnotes, fpc, readerVars>>

\* sp_mapdb_notifiers_call with an empty notifier chain
sp_mapdb_notifiers_call_Silent(w, event) == wnotes' = wnotes

\* sp_mapdb_notifiers_call(rule, event)
sp_mapdb_notifiers_call(w, event) ==
    wnotes' = [wnotes EXCEPT ![w] = Append(@, <<event, wreq[w].id, wreq[w].classifier_type>>)]

(***************************************************************************)
(* sp_mapdb_rule_add().                                                    *)
(***************************************************************************)
\* the sentinel filed under the highest precedence instead of the lowest
NormPrecedence_Top(newrule_precedence) ==
    IF newrule_precedence = SP_MAPDB_RULE_MAX_PRECEDENCENUM
    THEN SP_MAPDB_RULE_MAX_PRECEDENCENUM - 1
    ELSE newrule_precedence

\* lines 165-168: the precedence the node is filed under
NormPrecedence(newrule_precedence) ==
    IF newrule_precedence = SP_MAPDB_RULE_MAX_PRECEDENCENUM THEN 0
    ELSE newrule_precedence

\* lines 162-168: what the node holds once it is filled in
NormRule(newrule) ==
    [newrule EXCEPT !.rule_precedence = NormPrecedence(newrule.rule_precedence)]

\* AddRejected without the capacity test of line 146
AddRejected_NoFull(newrule) ==
    IF newrule.rule_output >= SP_MAPDB_NO_MATCH THEN "ERR_INVALIDENTRY" ELSE "NONE"

\* lines 146-154: the two rejections made before anything is allocated
AddRejected(newrule) ==
    IF rule_count = SP_MAPDB_RULE_MAX THEN "ERR_TBLFULL"
    ELSE IF newrule.rule_output >= SP_MAPDB_NO_MATCH THEN "ERR_INVALIDENTRY"
    ELSE "NONE"

AddReject(w) ==
    /\ wpc[w] = "add"
    /\ AddRejected(wreq[w]) # "NONE"
    /\ wres' = [wres EXCEPT ![w] = AddRejected(wreq[w])]
    /\ wpc' = [wpc EXCEPT ![w] = "unlock"]
    /\ UNCHANGED <<storeVars, lockVars, wreq, wnode, wcur, wnotes, fpc, readerVars>>
    /\ Touch(w)

\* lines 156-160: kzalloc() of the node fails
AddAllocNodeFail(w) ==
    /\ wpc[w] = "add"
    /\ AddRejected(wreq[w]) = "NONE"
    /\ wres' = [wres EXCEPT ![w] = "ERR_ALLOCNODE"]
    /\ wpc' = [wpc EXCEPT ![w] = "unlock"]
    /\ UNCHANGED <<storeVars, lockVars, wreq, wnode, wcur, wnotes, fpc, readerVars>>
    /\ Touch(w)

\* line 156: kzalloc() returns a zeroed slot
AddAllocNode(w) ==
    /\ wpc[w] = "add"
    /\ AddRejected(wreq[w]) = "NONE"
    /\ \E n \in FreeSlots :
         /\ nstate' = [nstate EXCEPT ![n] = "priv"]
         /\ nrule' = [nrule EXCEPT ![n] = ZeroRule]
         /\ next' = [next EXCEPT ![n] = NULL]
         /\ prev' = [prev EXCEPT ![n] = NULL]
         /\ wnode' = [wnode EXCEPT ![w] = n]
    /\ wpc' = [wpc EXCEPT ![w] = "fill"]
    /\ UNCHANGED <<gp, rule_id_hashmap, rule_count, lockVars, wreq, wcur, wres, wnotes,
                   fpc, readerVars>>
    /\ Touch(w)

\* lines 162-168: memcpy of the request, the type, the precedence sentinel
AddFill(w) ==
    /\ wpc[w] = "fill"
    /\ nrule' = [nrule EXCEPT ![wnode[w]] = NormRule(wreq[w])]
    /\ wpc' = [wpc EXCEPT ![w] = "lookup"]
    /\ UNCHANGED <<next, prev, nstate, gp, rule_id_hashmap, rule_count, lockVars, wreq,
                   wnode, wcur, wres, wnotes, fpc, readerVars>>
    /\ Touch(w)

\* lines 170-173: no entry for the key; the spinlock is dropped again
AddLookupMiss(w) ==
    /\ wpc[w] = "lookup"
    /\ sp_mapdb_lock = "free"
    /\ sp_mapdb_search_hashentry(wreq[w].id, wreq[w].classifier_type) = 0
    /\ wpc' = [wpc EXCEPT ![w] = "allochash"]
    /\ UNCHANGED <<storeVars, lockVars, wreq, wnode, wcur, wres, wnotes, fpc, readerVars>>
    /\ Touch(w)

\* AddAllocHashFail without the kfree() of line 177
AddAllocHashFail_Leaks(w) ==
    /\ wpc[w] = "allochash"
    /\ wres' = [wres EXCEPT ![w] = "ERR_ALLOCHASH"]
    /\ wpc' = [wpc EXCEPT ![w] = "unlock"]
    /\ UNCHANGED <<storeVars, lockVars, wreq, wnode, wcur, wnotes, fpc, readerVars>>
    /\ Touch(w)

\* lines 174-179: kzalloc() of the hashentry fails, the node is freed
AddAllocHashFail(w) ==
    /\ wpc[w] = "allochash"
    /\ LET S == kfree(Slots, wnode[w])
       IN  nstate' = S.nstate /\ nrule' = S.nrule /\ next' = S.next /\ prev' = S.prev
    /\ wres' = [wres EXCEPT ![w] = "ERR_ALLOCHASH"]
    /\ wpc' = [wpc EXCEPT ![w] = "unlock"]
    /\ UNCHANGED <<gp, rule_id_hashmap, rule_count, lockVars, wreq,
                   wnode, wcur, wnotes, fpc, readerVars>>
    /\ Touch(w)

\* lines 174-191: the hashentry is allocated; the node and its entry are
\* published under the spinlock, the count rises
AddInsert(w) ==
    /\ wpc[w] = "allochash"
    /\ sp_mapdb_lock = "free"
    /\ LET L == list_add_rcu(Lists, wnode[w],
                             PrecHead(NormPrecedence(wreq[w].rule_precedence)))
       IN  next' = L.next /\ prev' = L.prev
    /\ rule_id_hashmap' = hash_add(rule_id_hashmap, wnode[w])
    /\ rule_count' = rule_count + 1
    /\ nstate' = [nstate EXCEPT ![wnode[w]] = "linked"]
    /\ wpc' = [wpc EXCEPT ![w] = "n_add"]
    /\ UNCHANGED <<nrule, gp, lockVars, wreq, wnode, wcur, wres, wnotes, fpc, readerVars>>
    /\ Touch(w)

\* lines 205-210: same precedence, the old node is replaced in place
AddReplace(w) ==
    /\ wpc[w] = "lookup"
    /\ sp_mapdb_lock = "free"
    /\ LET k == sp_mapdb_search_hashentry(wreq[w].id, wreq[w].classifier_type)
           cur_rule_node == rule_id_hashmap[k]
       IN  /\ k # 0
           /\ nrule[cur_rule_node].rule_precedence = NormPrecedence(wreq[w].rule_precedence)
           /\ LET L == list_replace_rcu(Lists, cur_rule_node, wnode[w])
              IN  next' = L.next /\ prev' = L.prev
           /\ rule_id_hashmap' = [rule_id_hashmap EXCEPT ![k] = wnode[w]]
           /\ nstate' = [nstate EXCEPT ![wnode[w]] = "linked", ![cur_rule_node] = "unlinked"]
           /\ wcur' = [wcur EXCEPT ![w] = cur_rule_node]
    /\ wpc' = [wpc EXCEPT ![w] = "n_mod"]
    /\ UNCHANGED <<nrule, gp, rule_count, lockVars, wreq, wnode, wres, wnotes, fpc, readerVars>>
    /\ Touch(w)

\* line 224: another precedence, the old node leaves its bucket first
AddMoveDel(w) ==
    /\ wpc[w] = "lookup"
    /\ sp_mapdb_lock = "free"
    /\ LET k == sp_mapdb_search_hashentry(wreq[w].id, wreq[w].classifier_type)
           cur_rule_node == rule_id_hashmap[k]
       IN  /\ k # 0
           /\ nrule[cur_rule_node].rule_precedence # NormPrecedence(wreq[w].rule_precedence)
           /\ LET L == list_del_rcu(Lists, cur_rule_node)
              IN  next' = L.next /\ prev' = L.prev
           /\ nstate' = [nstate EXCEPT ![cur_rule_node] = "unlinked"]
           /\ wcur' = [wcur EXCEPT ![w] = cur_rule_node]
    /\ sp_mapdb_lock' = w
    /\ wpc' = [wpc EXCEPT ![w] = "move"]
    /\ UNCHANGED <<nrule, gp, rule_id_hashmap, rule_count, single_writer, wreq, wnode,
                   wres, wnotes, fpc, readerVars>>
    /\ Touch(w)

\* lines 225-227: the new node enters its bucket, the entry is repointed
AddMoveAdd(w) ==
    /\ wpc[w] = "move"
    /\ LET L == list_add_rcu(Lists, wnode[w],
                             PrecHead(NormPrecedence(wreq[w].rule_precedence)))
       IN  next' = L.next /\ prev' = L.prev
    /\ rule_id_hashmap' = [k \in 1..Len(rule_id_hashmap) |->
                             IF rule_id_hashmap[k] = wcur[w] THEN wnode[w]
                             ELSE rule_id_hashmap[k]]
    /\ nstate' = [nstate EXCEPT ![wnode[w]] = "linked"]
    /\ sp_mapdb_lock' = "free"
    /\ gp' = QuiesceGp(gp, w)
    /\ wpc' = [wpc EXCEPT ![w] = "n_mod"]
    /\ UNCHANGED <<nrule, rule_count, single_writer, wreq, wnode, wcur, wres, wnotes,
                   fpc, readerVars>>
    /\ Touch(w)

\* line 200: the ADD notification, then SUCCESS_ADD
NotifyAdd(w) ==
    /\ wpc[w] = "n_add"
    /\ sp_mapdb_notifiers_call(w, "ADD")
    /\ wres' = [wres EXCEPT ![w] = "SUCCESS_ADD"]
    /\ wpc' = [wpc EXCEPT ![w] = "unlock"]
    /\ UNCHANGED <<storeVars, lockVars, wreq, wnode, wcur, fpc, readerVars>>
    /\ Touch(w)

\* lines 217 and 235: the MODIFY notification
NotifyModify(w) ==
    /\ wpc[w] = "n_mod"
    /\ sp_mapdb_notifiers_call(w, "MODIFY")
    /\ wpc' = [wpc EXCEPT ![w] = "callrcu"]
    /\ UNCHANGED <<storeVars, lockVars, wreq, wnode, wcur, wres, fpc, readerVars>>
    /\ Touch(w)

\* CallRcu returning SUCCESS_MODIFY only where the precedence is kept
CallRcu_MoveIsAdd(w) ==
    /\ wpc[w] = "callrcu"
    /\ LET c == call_rcu(Slots, gp, wcur[w])
       IN  /\ nstate' = c.slots.nstate /\ nrule' = c.slots.nrule
           /\ next' = c.slots.next /\ prev' = c.slots.prev
           /\ gp' = c.gp
    /\ wres' = [wres EXCEPT ![w] =
                  IF wreq[w].cmd # "ADD" THEN "SUCCESS_DELETE"
                  ELSE IF nrule[wcur[w]].rule_precedence = nrule[wnode[w]].rule_precedence
                  THEN "SUCCESS_MODIFY" ELSE "SUCCESS_ADD"]
    /\ wpc' = [wpc EXCEPT ![w] = "unlock"]
    /\ UNCHANGED <<rule_id_hashmap, rule_count, lockVars, wreq, wnode,
                   wcur, wnotes, fpc, readerVars>>
    /\ Touch(w)

\* lines 219, 236 and 280: the old node is handed to call_rcu()
CallRcu(w) ==
    /\ wpc[w] = "callrcu"
    /\ LET c == call_rcu(Slots, gp, wcur[w])
       IN  /\ nstate' = c.slots.nstate /\ nrule' = c.slots.nrule
           /\ next' = c.slots.next /\ prev' = c.slots.prev
           /\ gp' = c.gp
    /\ wres' = [wres EXCEPT ![w] =
                  IF wreq[w].cmd = "ADD" THEN "SUCCESS_MODIFY" ELSE "SUCCESS_DELETE"]
    /\ wpc' = [wpc EXCEPT ![w] = "unlock"]
    /\ UNCHANGED <<rule_id_hashmap, rule_count, lockVars, wreq, wnode,
                   wcur, wnotes, fpc, readerVars>>
    /\ Touch(w)

(***************************************************************************)
(* sp_mapdb_rule_delete().                                                 *)
(***************************************************************************)
\* lines 252-257
DeleteEmpty(w) ==
    /\ wpc[w] = "del"
    /\ sp_mapdb_lock = "free"
    /\ rule_count = 0
    /\ wres' = [wres EXCEPT ![w] = "ERR_TBLEMPTY"]
    /\ wpc' = [wpc EXCEPT ![w] = "unlock"]
    /\ UNCHANGED <<storeVars, lockVars, wreq, wnode, wcur, wnotes, fpc, readerVars>>
    /\ Touch(w)

\* DeleteMiss with the count decremented before the lookup result is tested
DeleteMiss_Counts(w) ==
    /\ wpc[w] = "del"
    /\ sp_mapdb_lock = "free"
    /\ rule_count # 0
    /\ sp_mapdb_search_hashentry(wreq[w].id, wreq[w].classifier_type) = 0
    /\ rule_count' = rule_count - 1
    /\ wres' = [wres EXCEPT ![w] = "ERR_RULENOEXIST"]
    /\ wpc' = [wpc EXCEPT ![w] = "unlock"]
    /\ UNCHANGED <<next, prev, nstate, nrule, gp, rule_id_hashmap, lockVars, wreq, wnode,
                   wcur, wnotes, fpc, readerVars>>
    /\ Touch(w)

\* lines 259-264
DeleteMiss(w) ==
    /\ wpc[w] = "del"
    /\ sp_mapdb_lock = "free"
    /\ rule_count # 0
    /\ sp_mapdb_search_hashentry(wreq[w].id, wreq[w].classifier_type) = 0
    /\ wres' = [wres EXCEPT ![w] = "ERR_RULENOEXIST"]
    /\ wpc' = [wpc EXCEPT ![w] = "unlock"]
    /\ UNCHANGED <<storeVars, lockVars, wreq, wnode, wcur, wnotes, fpc, readerVars>>
    /\ Touch(w)

\* lines 266-271
DeleteHit(w) ==
    /\ wpc[w] = "del"
    /\ sp_mapdb_lock = "free"
    /\ rule_count # 0
    /\ LET k == sp_mapdb_search_hashentry(wreq[w].id, wreq[w].classifier_type)
           tobedeleted == rule_id_hashmap[k]
       IN  /\ k # 0
           /\ LET L == list_del_rcu(Lists, tobedeleted)
              IN  next' = L.next /\ prev' = L.prev
           /\ rule_id_hashmap' = hash_del(rule_id_hashmap, k)
           /\ nstate' = [nstate EXCEPT ![tobedeleted] = "unlinked"]
           /\ wcur' = [wcur EXCEPT ![w] = tobedeleted]
    /\ rule_count' = rule_count - 1
    /\ wpc' = [wpc EXCEPT ![w] = "n_rem"]
    /\ UNCHANGED <<nrule, gp, lockVars, wreq, wnode, wres, wnotes, fpc, readerVars>>
    /\ Touch(w)

\* line 279: the REMOVE notification
NotifyRemove(w) ==
    /\ wpc[w] = "n_rem"
    /\ sp_mapdb_notifiers_call(w, "REMOVE")
    /\ wpc' = [wpc EXCEPT ![w] = "callrcu"]
    /\ UNCHANGED <<storeVars, lockVars, wreq, wnode, wcur, wres, fpc, readerVars>>
    /\ Touch(w)

(***************************************************************************)
(* sp_mapdb_ruletable_flush(): it takes the spinlock only, never the       *)
(* single_writer bit.                                                      *)
(***************************************************************************)
\* lines 606-611: the count is 0 under the spinlock; the call returns at
\* once and leaves everything as it found it
FlushEmpty ==
    /\ fpc = "idle"
    /\ sp_mapdb_lock = "free"
    /\ rule_count = 0
    /\ UNCHANGED vars

\* line 606: the spinlock is held from here to line 633
FlushBegin ==
    /\ fpc = "idle"
    /\ sp_mapdb_lock = "free"
    /\ rule_count # 0
    /\ sp_mapdb_lock' = Flusher
    /\ fpc' = "loop"
    /\ UNCHANGED <<storeVars, single_writer, writerVars, readerVars>>

\* the bucket the loop of line 613 is at: the lowest one with a node left
FlushBucket ==
    CHOOSE i \in Buckets :
        /\ next[PrecHead(i)] # PrecHead(i)
        /\ \A j \in Buckets : next[PrecHead(j)] # PrecHead(j) => i <= j

\* lines 621-624: one node is unlinked and handed to call_rcu()
FlushDel ==
    /\ fpc = "loop"
    /\ \E i \in Buckets : next[PrecHead(i)] # PrecHead(i)
    /\ LET node == next[PrecHead(FlushBucket)]
           L == list_del_rcu(Lists, node)
           c == call_rcu([Slots EXCEPT !.next = L.next, !.prev = L.prev], gp, node)
       IN  /\ nstate' = c.slots.nstate /\ nrule' = c.slots.nrule
           /\ next' = c.slots.next /\ prev' = c.slots.prev
           /\ gp' = c.gp
    /\ UNCHANGED <<rule_id_hashmap, rule_count, lockVars, writerVars, fpc, readerVars>>

\* FlushEnd without line 632
FlushEnd_KeepsCount ==
    /\ fpc = "loop"
    /\ \A i \in Buckets : next[PrecHead(i)] = PrecHead(i)
    /\ rule_id_hashmap' = <<>>
    /\ sp_mapdb_lock' = "free"
    /\ gp' = QuiesceGp(gp, Flusher)
    /\ fpc' = "idle"
    /\ UNCHANGED <<next, prev, nstate, nrule, rule_count, single_writer, writerVars,
                   readerVars>>

\* lines 628-633: the index is emptied, the count zeroed, the lock dropped;
\* the call returns
FlushEnd ==
    /\ fpc = "loop"
    /\ \A i \in Buckets : next[PrecHead(i)] = PrecHead(i)
    /\ rule_id_hashmap' = <<>>
    /\ rule_count' = 0
    /\ sp_mapdb_lock' = "free"
    /\ gp' = QuiesceGp(gp, Flusher)
    /\ fpc' = "idle"
    /\ UNCHANGED <<next, prev, nstate, nrule, single_writer, writerVars, readerVars>>

\* SetOutput shifting the DS field by 3 where lines 555 and 559 shift by 5
SetOutput_Shift3(pkt, output) ==
    CASE output = SP_MAPDB_USE_UP -> pkt.priority % 256
      [] output = SP_MAPDB_USE_DSCP ->
           IF pkt.protocol \in {"ETH_P_IP", "ETH_P_IPV6"} THEN pkt.tos \div 8
           ELSE SP_MAPDB_RULE_DEFAULT_PCP
      [] output = SP_MAPDB_NO_MATCH -> SP_MAPDB_RULE_DEFAULT_PCP
      [] OTHER -> output

(***************************************************************************)
(* The classify entry points: sp_mapdb_apply() (mesh),                     *)
(* sp_mapdb_rule_apply_sawf(), sp_mapdb_apply_scs(), sp_mapdb_apply_mscs() *)
(* and sp_mapdb_get_wlan_latency_params(), one call per reader r.          *)
(***************************************************************************)
\* sp_mapdb_ruletable_search() lines 544-584: the output selector resolved
SetOutput(pkt, output) ==
    CASE output = SP_MAPDB_USE_UP -> pkt.priority % 256
      [] output = SP_MAPDB_USE_DSCP ->
           IF pkt.protocol \in {"ETH_P_IP", "ETH_P_IPV6"} THEN pkt.tos \div 32
           ELSE SP_MAPDB_RULE_DEFAULT_PCP
      [] output = SP_MAPDB_NO_MATCH -> SP_MAPDB_RULE_DEFAULT_PCP
      [] OTHER -> output

SawfOut(output, dscp_remark, vlan_pcp_remark, service_class_id, rule_id) ==
    [ priority |-> output, dscp_remark |-> dscp_remark,
      vlan_pcp_remark |-> vlan_pcp_remark, service_class_id |-> service_class_id,
      rule_id |-> rule_id ]

\* the decision when the scan ends without a match
NoMatchOut(kind, pkt) ==
    CASE kind = "mesh" -> [priority |-> SetOutput(pkt, SP_MAPDB_NO_MATCH)]
      [] kind = "sawf" ->
           SawfOut(SP_MAPDB_USE_DSCP, SP_RULE_INVALID_DSCP_REMARK,
                   SP_RULE_INVALID_VLAN_PCP_REMARK, SP_RULE_INVALID_SERVICE_CLASS_ID,
                   SP_RULE_INVALID_RULE_ID)
      [] kind \in {"scs", "mscs"} ->
           [priority |-> SP_RULE_INVALID_PRIORITY, rule_id |-> SP_RULE_INVALID_RULE_ID]
      [] OTHER ->
           [ service_interval_dl |-> 0, burst_size_dl |-> 0,
             service_interval_ul |-> 0, burst_size_ul |-> 0 ]

\* EmptyOut taking the no-match branch of the switch at line 544
EmptyOut_Default(kind, pkt) ==
    IF kind = "mesh" THEN [priority |-> SetOutput(pkt, SP_MAPDB_NO_MATCH)]
    ELSE NoMatchOut(kind, pkt)

\* the decision when rule_count is read as 0
EmptyOut(kind, pkt) ==
    IF kind = "mesh" THEN [priority |-> SetOutput(pkt, SP_MAPDB_USE_DSCP)]
    ELSE NoMatchOut(kind, pkt)

\* the decision taken from a matching rule
HitOut(kind, pkt, rule) ==
    CASE kind = "mesh" -> [priority |-> SetOutput(pkt, rule.rule_output)]
      [] kind = "sawf" ->
           SawfOut(rule.rule_output, rule.dscp_remark, rule.vlan_pcp_remark,
                   rule.service_class_id, rule.id)
      [] kind = "scs" -> [priority |-> rule.rule_output, rule_id |-> rule.id]
      [] kind = "mscs" -> [priority |-> pkt.priority % 256, rule_id |-> rule.id]
      [] OTHER ->
           [ service_interval_dl |-> rule.service_interval_dl,
             burst_size_dl |-> rule.burst_size_dl,
             service_interval_ul |-> rule.service_interval_ul,
             burst_size_ul |-> rule.burst_size_ul ]

\* the rule type a scan of this kind and pass examines ("*" for every type)
ScanType(kind, pass) ==
    CASE kind = "mesh" -> "MESH"
      [] kind = "sawf" -> IF pass = 1 THEN "SAWF" ELSE "SAWF_SCS"
      [] kind = "scs" -> "SCS"
      [] kind = "mscs" -> "MSCS"
      [] OTHER -> "*"

\* the latency scan restricted to MESH rules, as the mesh classifier is
Examine_MeshOnly(kind, pass, pkt, rule) ==
    [ hit |-> rule.classifier_type = "MESH" /\ sp_mapdb_rule_match(pkt, rule),
      pkt |-> pkt, undef |-> FALSE ]

\* the loop body run on one node: the verdict and the inputs as it leaves them.
\* Line 1217 shifts an int by skb->priority: with a count of 32 or more the
\* shift is undefined, and the test may come out either way (undef).
Examine(kind, pass, pkt, rule) ==
    IF kind = "latency"
    THEN [hit |-> sp_mapdb_rule_match(pkt, rule), pkt |-> pkt, undef |-> FALSE]
    ELSE IF rule.classifier_type # ScanType(kind, pass)
    THEN [hit |-> FALSE, pkt |-> pkt, undef |-> FALSE]
    ELSE IF kind = "mesh"
    THEN [hit |-> sp_mapdb_rule_match(pkt, rule), pkt |-> pkt, undef |-> FALSE]
    ELSE LET m == sp_mapdb_rule_match_sawf(rule, pkt.params)
             valid == rule.mscs_tid_bitmap # SP_RULE_INVALID_MSCS_TID_BITMAP
             accepted ==
                 IF kind = "mscs"
                 THEN /\ valid
                      /\ pkt.priority < 8
                      /\ BitAnd(Pow2(pkt.priority), rule.mscs_tid_bitmap) # 0
                 ELSE TRUE
         IN  [hit |-> m.ok /\ accepted, pkt |-> [pkt EXCEPT !.params = m.params],
              undef |-> kind = "mscs" /\ m.ok /\ valid /\ pkt.priority >= 32]

\* whether the whole traversal of this kind runs under rcu_read_lock()
HoldsRcu(kind) == kind \in {"mesh", "latency"}

TopBucket == SP_MAPDB_RULE_MAX_PRECEDENCENUM - 1

ReadCall(r, kind, pkt) ==
    /\ rpc[r] = "idle"
    /\ rkind' = [rkind EXCEPT ![r] = kind]
    /\ rpkt' = [rpkt EXCEPT ![r] = pkt]
    /\ rin' = [rin EXCEPT ![r] = pkt]
    /\ rdepth' = [rdepth EXCEPT ![r] = IF HoldsRcu(kind) THEN 1 ELSE 0]
    /\ rpass' = [rpass EXCEPT ![r] = 1]
    /\ ri' = [ri EXCEPT ![r] = TopBucket]
    /\ rcur' = [rcur EXCEPT ![r] = PrecHead(TopBucket)]
    /\ rpc' = [rpc EXCEPT ![r] = IF kind = "latency" THEN "scan" ELSE "chk"]
    /\ UNCHANGED <<storeVars, lockVars, writerVars, fpc, rout, rdang, rlast>>

\* reader r gives up its pointer into the lists
Leave(r) ==
    LET dead == {n \in Nodes : nstate[n] \in {"free", "unlinked", "retired"}}
        S == IF Scanning \ {r} = {} THEN Drop(Slots, dead) ELSE Slots
    IN  nrule' = S.nrule /\ next' = S.next /\ prev' = S.prev

\* the call ends with decision out; the outermost rcu_read_unlock() is passed
Finish(r, out) ==
    /\ rpc' = [rpc EXCEPT ![r] = "ret"]
    /\ rout' = [rout EXCEPT ![r] = out]
    /\ rdepth' = [rdepth EXCEPT ![r] = 0]
    /\ gp' = QuiesceGp(gp, r)
    /\ Leave(r)

\* rcu_read_lock(); rule_count == 0; rcu_read_unlock(); goto set_output
ReadCheckEmpty(r) ==
    /\ rpc[r] = "chk"
    /\ rule_count = 0
    /\ Finish(r, EmptyOut(rkind[r], rpkt[r]))
    /\ UNCHANGED <<nstate, rule_id_hashmap, rule_count, lockVars,
                   writerVars, fpc, rkind, rpass, ri, rcur, rpkt, rin, rdang, rlast>>

\* ReadCheckScan reading the count under the spinlock
ReadCheckScan_Locked(r) ==
    /\ rpc[r] = "chk"
    /\ sp_mapdb_lock = "free"
    /\ rule_count # 0
    /\ rpc' = [rpc EXCEPT ![r] = "scan"]
    /\ UNCHANGED <<storeVars, lockVars, writerVars, fpc, rkind, rpass, ri, rcur, rdepth,
                   rpkt, rin, rout, rdang, rlast>>

\* rcu_read_lock(); rule_count != 0; rcu_read_unlock(); the scan starts
ReadCheckScan(r) ==
    /\ rpc[r] = "chk"
    /\ rule_count # 0
    /\ rpc' = [rpc EXCEPT ![r] = "scan"]
    /\ UNCHANGED <<storeVars, lockVars, writerVars, fpc, rkind, rpass, ri, rcur, rdepth,
                   rpkt, rin, rout, rdang, rlast>>

\* the pointer list_for_each_entry_rcu() loads next
Target(r) == next[rcur[r]]

\* the rule stored behind a list_head (a bucket head is a zeroed static node)
RuleAt(p) == IF p \in Nodes THEN nrule[p] ELSE ZeroRule

\* the next load of r reads memory that kfree() has released, or follows a
\* pointer that is no list_head
Faults(r) ==
    \/ rdang[r]
    \/ Target(r) \notin Nodes \cup Heads
    \/ Target(r) \in Nodes /\ nstate[Target(r)] = "free"

\* a node is examined and does not decide the call
ReadVisit(r) ==
    /\ rpc[r] = "scan"
    /\ ~Faults(r)
    /\ Target(r) # PrecHead(ri[r])
    /\ LET e == Examine(rkind[r], rpass[r], rpkt[r], RuleAt(Target(r)))
       IN  /\ ~e.hit
           /\ rpkt' = [rpkt EXCEPT ![r] = e.pkt]
    /\ rcur' = [rcur EXCEPT ![r] = Target(r)]
    /\ rlast' = [rlast EXCEPT ![r] = RuleAt(Target(r))]
    /\ UNCHANGED <<storeVars, lockVars, writerVars, fpc, rpc, rkind, rpass, ri, rdepth,
                   rin, rout, rdang>>

\* a node is examined and matches: goto set_output
ReadHit(r) ==
    /\ rpc[r] = "scan"
    /\ ~Faults(r)
    /\ Target(r) # PrecHead(ri[r])
    /\ LET e == Examine(rkind[r], rpass[r], rpkt[r], RuleAt(Target(r)))
       IN  /\ e.hit \/ e.undef
           /\ rpkt' = [rpkt EXCEPT ![r] = e.pkt]
           /\ Finish(r, HitOut(rkind[r], e.pkt, RuleAt(Target(r))))
    /\ rcur' = [rcur EXCEPT ![r] = Target(r)]
    /\ rlast' = [rlast EXCEPT ![r] = RuleAt(Target(r))]
    /\ UNCHANGED <<nstate, rule_id_hashmap, rule_count, lockVars,
                   writerVars, fpc, rkind, rpass, ri, rin, rdang>>

\* the traversal is back at the head of its bucket: on to the next lower one
ReadBucketEnd(r) ==
    /\ rpc[r] = "scan"
    /\ ~Faults(r)
    /\ Target(r) = PrecHead(ri[r])
    /\ ri[r] > 0
    /\ ri' = [ri EXCEPT ![r] = @ - 1]
    /\ rcur' = [rcur EXCEPT ![r] = PrecHead(ri[r] - 1)]
    /\ UNCHANGED <<storeVars, lockVars, writerVars, fpc, rpc, rkind, rpass, rdepth, rpkt,
                   rin, rout, rdang, rlast>>

\* sp_mapdb_rule_apply_sawf(): the SAWF pass found nothing, the SAWF_SCS pass starts
ReadPassEnd(r) ==
    /\ rpc[r] = "scan"
    /\ ~Faults(r)
    /\ Target(r) = PrecHead(ri[r])
    /\ ri[r] = 0
    /\ rkind[r] = "sawf" /\ rpass[r] = 1
    /\ rpass' = [rpass EXCEPT ![r] = 2]
    /\ ri' = [ri EXCEPT ![r] = TopBucket]
    /\ rcur' = [rcur EXCEPT ![r] = PrecHead(TopBucket)]
    /\ UNCHANGED <<storeVars, lockVars, writerVars, fpc, rpc, rkind, rdepth, rpkt, rin,
                   rout, rdang, rlast>>

\* bucket 0 is exhausted: the no-match decision
ReadNoMatch(r) ==
    /\ rpc[r] = "scan"
    /\ ~Faults(r)
    /\ Target(r) = PrecHead(ri[r])
    /\ ri[r] = 0
    /\ ~(rkind[r] = "sawf" /\ rpass[r] = 1)
    /\ Finish(r, NoMatchOut(rkind[r], rpkt[r]))
    /\ UNCHANGED <<nstate, rule_id_hashmap, rule_count, lockVars,
                   writerVars, fpc, rkind, rpass, ri, rcur, rpkt, rin, rdang, rlast>>

\* Undefined behaviour: the load reads released memory or follows a wild
\* pointer.  It may fault, hang, or go on with whatever bytes it finds; the
\* call is not followed any further and "oops" stands for all of these.
ReadOops(r) ==
    /\ rpc[r] = "scan"
    /\ Faults(r)
    /\ rpc' = [rpc EXCEPT ![r] = "oops"]
    /\ rdepth' = [rdepth EXCEPT ![r] = 0]
    /\ gp' = QuiesceGp(gp, r)
    /\ Leave(r)
    /\ UNCHANGED <<nstate, rule_id_hashmap, rule_count, lockVars, writerVars, fpc, rkind,
                   rpass, ri, rcur, rpkt, rin, rout, rdang, rlast>>

\* the caller has the decision (or is gone); the next call by r starts afresh
ReadReturn(r) ==
    /\ rpc[r] \in {"ret", "oops"}
    /\ rpc' = [rpc EXCEPT ![r] = "idle"]
    /\ rkind' = [rkind EXCEPT ![r] = "none"]
    /\ rpass' = [rpass EXCEPT ![r] = 0]
    /\ ri' = [ri EXCEPT ![r] = 0]
    /\ rcur' = [rcur EXCEPT ![r] = NULL]
    /\ rpkt' = [rpkt EXCEPT ![r] = BasePkt]
    /\ rin' = [rin EXCEPT ![r] = BasePkt]
    /\ rout' = [rout EXCEPT ![r] = NoOut]
    /\ rdang' = [rdang EXCEPT ![r] = FALSE]
    /\ rlast' = [rlast EXCEPT ![r] = NoRule]
    /\ UNCHANGED <<storeVars, lockVars, writerVars, fpc, rdepth>>

(***************************************************************************)
(* The callers.                                                            *)
(***************************************************************************)
\* one caller of sp_mapdb_rule_update() that finds the bit lock free
WriterStep(w, reqs) ==
    \/ UpdateNull(w)
    \/ \E req \in reqs : UpdateEnter(w, req)
    \/ AddReject(w)
    \/ AddAllocNodeFail(w)
    \/ AddAllocNode(w)
    \/ AddFill(w)
    \/ AddLookupMiss(w)
    \/ AddAllocHashFail(w)
    \/ AddInsert(w)
    \/ AddReplace(w)
    \/ AddMoveDel(w)
    \/ AddMoveAdd(w)
    \/ NotifyAdd(w)
    \/ NotifyModify(w)
    \/ NotifyRemove(w)
    \/ CallRcu(w)
    \/ DeleteEmpty(w)
    \/ DeleteMiss(w)
    \/ DeleteHit(w)
    \/ Unlock(w)
    \/ Return(w)

FlushStep == FlushEmpty \/ FlushBegin \/ FlushDel \/ FlushEnd

ReaderStep(r, kinds, pkts) ==
    \/ \E kind \in kinds, pkt \in pkts : ReadCall(r, kind, pkt)
    \/ ReadCheckEmpty(r)
    \/ ReadCheckScan(r)
    \/ ReadVisit(r)
    \/ ReadHit(r)
    \/ ReadBucketEnd(r)
    \/ ReadPassEnd(r)
    \/ ReadNoMatch(r)
    \/ ReadOops(r)
    \/ ReadReturn(r)

Reclaim == \E n \in Nodes : sp_rule_destroy_rcu(n)

Rule(id, type, prec, output) ==
    [BaseRule EXCEPT !.id = id, !.classifier_type = type, !.rule_precedence = prec,
                     !.rule_output = output, !.cmd = "ADD",
                     !.flags = IF type = "MESH" THEN {"ALWAYS_TRUE"} ELSE {}]

Delete(id, type) == [Rule(id, type, 0, 0) EXCEPT !.cmd = "DELETE"]

\* the key of a rule, and the keys and rules the buckets hold now
Key(rule) == <<rule.id, rule.classifier_type>>
LiveKeys == {Key(nrule[n]) : n \in LinkedNodes}
LiveRules == {nrule[n] : n \in LinkedNodes}

(***************************************************************************)
(* Spec: the update side.  Two callers of sp_mapdb_rule_update(), the      *)
(* flush and the RCU callbacks run against each other.                     *)
(***************************************************************************)
Requests ==
    {Rule(5, "MESH", p, 1) : p \in 0..SP_MAPDB_RULE_MAX_PRECEDENCENUM}
    \cup {Rule(5, "SCS", 1, 2), Rule(6, "MESH", 1, 3),
          Rule(5, "MESH", 0, SP_MAPDB_NO_MATCH)}
    \cup {Delete(5, "MESH"), Delete(5, "SCS"),
          [Rule(5, "MESH", 0, 0) EXCEPT !.cmd = "OTHER"]}

Next ==
    \/ \E w \in Writers : WriterStep(w, Requests)
    \/ \E w \in Writers, req \in Requests : UpdateBusy(w, req)
    \/ FlushStep
    \/ Reclaim

Spec == Init /\ [][Next]_vars

(***************************************************************************)
(* SpecReaders: one classify caller of any kind against one updater of a   *)
(* single key and the RCU callbacks.                                       *)
(***************************************************************************)
ReaderRequests ==
    {Rule(5, "MESH", 0, 1), Rule(5, "MESH", 1, 1), Rule(5, "MESH", 0, SP_MAPDB_NO_MATCH),
     Delete(5, "MESH"), Delete(6, "MESH")}

Packets == {BasePkt}

NextReaders ==
    \/ WriterStep("w1", ReaderRequests)
    \/ \E r \in Readers : ReaderStep(r, Kinds, Packets)
    \/ Reclaim

SpecReaders == Init /\ [][NextReaders]_vars

(***************************************************************************)
(* SpecStale: one sp_mapdb_rule_apply_sawf() caller against one updater of *)
(* two keys that share a bucket, and the RCU callbacks.                    *)
(***************************************************************************)
StaleRequests ==
    {Rule(5, "SAWF", 0, 1), Rule(5, "SAWF", 1, 1), Rule(6, "SAWF_SCS", 1, 2),
     Delete(5, "SAWF")}

NextStale ==
    \/ WriterStep("w1", StaleRequests)
    \/ \E r \in Readers : ReaderStep(r, {"sawf"}, Packets)
    \/ Reclaim

SpecStale == Init /\ [][NextStale]_vars

(***************************************************************************)
(* SpecClassify: classify calls on a table that is not being modified.     *)
(* Updates and classify calls alternate; none overlaps another.            *)
(***************************************************************************)
\* an SCS rule on the destination IPv4 address, with or without a mask
ScsRule(id, prec, output, dst, mask) ==
    [Rule(id, "SCS", prec, output) EXCEPT
        !.flags_sawf = IF mask = 0 THEN {"DST_IPV4"} ELSE {"DST_IPV4", "DST_IPV4_MASK"},
        !.dst_ipv4_addr = dst, !.dst_ipv4_addr_mask = mask]

\* a MESH rule on the user priority
UpRule(id, prec, output, up) ==
    [Rule(id, "MESH", prec, output) EXCEPT !.flags = {"UP"}, !.user_priority = up]

ClassifyRequests ==
    {ScsRule(7, 1, 4, 1, 2), ScsRule(8, 0, 5, 3, 0), ScsRule(8, 1, 5, 3, 0),
     UpRule(5, 0, 1, 0), UpRule(5, 1, 6, 1), UpRule(6, 1, 2, 0),
     Delete(7, "SCS"), Delete(5, "MESH")}

ClassifyPackets ==
    {[BasePkt EXCEPT !.params.dst_ipv4 = 3],
     [BasePkt EXCEPT !.params.dst_ipv4 = 1, !.priority = 1]}

NextClassify ==
    \/ /\ \A r \in Readers : rpc[r] = "idle"
       /\ WriterStep("w1", ClassifyRequests)
    \/ /\ wpc["w1"] = "idle"
       /\ \E r \in Readers : ReaderStep(r, Kinds, ClassifyPackets)
    \/ Reclaim

SpecClassify == Init /\ [][NextClassify]_vars

(***************************************************************************)
(* The properties.                                                         *)
(***************************************************************************)
Inside(w) == wpc[w] \notin {"idle", "ret"}

\* C1: whenever the spinlock is free (so after any sequence of ADD, DELETE
\* and flush operations) the rule count equals the number of live
\* (id, rule_type) keys, the number of index entries and the number of nodes
\* linked in the buckets; the count never exceeds SP_MAPDB_RULE_MAX.
C1_CountIsLiveKeys ==
    /\ rule_count <= SP_MAPDB_RULE_MAX
    /\ sp_mapdb_lock = "free" =>
         /\ rule_count = Cardinality(LiveKeys)
         /\ rule_count = Len(rule_id_hashmap)
         /\ rule_count = Cardinality(LinkedNodes)

C1_Witness ==
    /\ sp_mapdb_lock = "free"
    /\ rule_count = SP_MAPDB_RULE_MAX
    /\ Cardinality(LiveKeys) = SP_MAPDB_RULE_MAX
    /\ \E w \in Writers : wpc[w] = "add" /\ AddRejected(wreq[w]) = "ERR_TBLFULL"

BucketsOf(n) == {i \in Buckets : n \in SeqSet(BucketNodes(i))}

\* C2: whenever the spinlock is free the index holds at most one entry per
\* (id, rule_type), every entry points to a node linked in exactly one
\* bucket, that bucket is the node's stored precedence, and every linked
\* node is pointed to by exactly one entry.
C2_IndexBucketBijection ==
    sp_mapdb_lock = "free" =>
        /\ \A j, k \in 1..Len(rule_id_hashmap) :
             j # k => Key(nrule[rule_id_hashmap[j]]) # Key(nrule[rule_id_hashmap[k]])
        /\ \A k \in 1..Len(rule_id_hashmap) :
             BucketsOf(rule_id_hashmap[k]) = {nrule[rule_id_hashmap[k]].rule_precedence}
        /\ \A n \in LinkedNodes :
             Cardinality({k \in 1..Len(rule_id_hashmap) : rule_id_hashmap[k] = n}) = 1

C2_Witness ==
    /\ sp_mapdb_lock = "free"
    /\ \E w \in Writers :
         /\ wpc[w] = "n_mod"
         /\ nrule[wcur[w]].rule_precedence # nrule[wnode[w]].rule_precedence
         /\ BucketsOf(wcur[w]) = {}
         /\ \E k \in 1..Len(rule_id_hashmap) : rule_id_hashmap[k] = wnode[w]

\* C3: every classify traversal lies inside a read-side critical section, so
\* no reader is ever positioned on, or loads through, a node that has been
\* freed.
C3_NoReaderOnFreedNode ==
    \A r \in Readers : ~rdang[r] /\ rpc[r] # "oops"

\* the decision the table prescribes for the inputs of a classify call
Passes(kind) == IF kind = "sawf" THEN {1, 2} ELSE {1}
Satisfies(kind, pkt, rule) == \E pass \in Passes(kind) : Examine(kind, pass, pkt, rule).hit
Matching(kind, pkt) == {n \in LinkedNodes : Satisfies(kind, pkt, nrule[n])}
TopMatching(kind, pkt) ==
    {n \in Matching(kind, pkt) :
        \A m \in Matching(kind, pkt) : nrule[m].rule_precedence <= nrule[n].rule_precedence}

\* C4: on a table that is not being modified every classify call returns the
\* output of a rule of the highest bucket that holds a rule of a scanned type
\* which the packet satisfies; without such a rule no rule decides.
C4_HighestBucketDecides ==
    \A r \in Readers :
        rpc[r] = "ret" =>
            IF Matching(rkind[r], rin[r]) = {}
            THEN rout[r] \in {EmptyOut(rkind[r], rin[r]), NoMatchOut(rkind[r], rin[r])}
            ELSE \E n \in TopMatching(rkind[r], rin[r]) :
                    rout[r] = HitOut(rkind[r], rin[r], nrule[n])

\* C5: at most one call is between taking and releasing the single_writer
\* bit; a call that finds the bit set has returned ERR_SINGLE_WRITER at once
\* and has changed neither buckets, index nor count, nor notified anybody.
C5_SingleWriter ==
    /\ Cardinality({w \in Writers : Inside(w)}) <= 1
    /\ single_writer = 1 <=> \E w \in Writers : Inside(w)
    /\ \A w \in Writers :
         wres[w] = "ERR_SINGLE_WRITER" =>
             wpc[w] = "ret" /\ ~wdirty[w] /\ wnotes[w] = <<>> /\ wnode[w] = NULL

C5_Witness ==
    \E w, v \in Writers :
        wres[w] = "ERR_SINGLE_WRITER" /\ wpc[v] = "allochash"

\* C6: the key is (id, rule_type).  An ADD whose key is not live inserts it
\* and the count rises by one (AddedNew); an ADD with a valid output whose
\* key is live is a modify: it is not turned away, the stored rule becomes
\* the submitted one and the count stays.
C6_SecondAddIsModify ==
    [][\A w \in Writers :
          LET req == wreq[w]
              live == Key(req) \in LiveKeys
          IN  /\ (wpc[w] = "add" /\ wpc'[w] = "unlock" /\ live
                     /\ req.rule_output < SP_MAPDB_NO_MATCH)
                 => wres'[w] = "ERR_ALLOCNODE"
              /\ (wpc[w] = "lookup" /\ wpc'[w] # "lookup")
                 => IF live THEN wpc'[w] \in {"n_mod", "move"} /\ rule_count' = rule_count
                    ELSE wpc'[w] = "allochash"
              /\ (wpc[w] = "allochash" /\ wpc'[w] = "n_add")
                 => /\ ~live
                    /\ rule_count' = rule_count + 1
                    /\ LiveKeys' = LiveKeys \cup {Key(req)}
              /\ (wpc[w] # "n_mod" /\ wpc'[w] = "n_mod")
                 => /\ rule_count' = rule_count
                    /\ NormRule(req) \in LiveRules'
                    /\ Cardinality(LiveKeys') = rule_count
              /\ (wres[w] # "SUCCESS_ADD" /\ wres'[w] = "SUCCESS_ADD") => wpc[w] = "n_add"
              /\ (wres[w] # "SUCCESS_MODIFY" /\ wres'[w] = "SUCCESS_MODIFY")
                 => wpc[w] = "callrcu" /\ req.cmd = "ADD"
      ]_vars

\* C7: a DELETE whose key is not live returns ERR_RULENOEXIST when the table
\* holds rules and ERR_TBLEMPTY when it holds none; either way buckets, index
\* and count stay as they are and nobody is notified.
C7_DeleteOfAbsentKey ==
    [][\A w \in Writers :
          (wpc[w] = "del" /\ wpc'[w] # "del" /\ Key(wreq[w]) \notin LiveKeys)
          => /\ wpc'[w] = "unlock"
             /\ wres'[w] = IF rule_count = 0 THEN "ERR_TBLEMPTY" ELSE "ERR_RULENOEXIST"
             /\ Table' = Table
             /\ wnotes'[w] = wnotes[w]
      ]_vars

\* C7 as stated: in every table state a DELETE whose key is not live returns
\* ERR_RULENOEXIST and leaves buckets, index and count as they are.
C7_AlwaysRuleNotFound ==
    [][\A w \in Writers :
          (wpc[w] = "del" /\ wpc'[w] # "del" /\ Key(wreq[w]) \notin LiveKeys)
          => /\ wpc'[w] = "unlock"
             /\ wres'[w] = "ERR_RULENOEXIST"
             /\ Table' = Table
      ]_vars

C7_Witness ==
    \E w \in Writers :
        /\ wpc[w] = "unlock"
        /\ wreq[w].cmd = "DELETE"
        /\ wres[w] = "ERR_RULENOEXIST"
        /\ LiveKeys # {}
        /\ Key(wreq[w]) \notin LiveKeys

CallerErrors ==
    {"ERR_TBLFULL", "ERR_INVALIDENTRY", "ERR_RULENOEXIST", "ERR_TBLEMPTY",
     "ERR_UNKNOWNBIT", "ERR_NEWRULE_NULLPTR"}

\* C8: a call that returns one of the caller-input errors has changed
\* neither buckets, index nor count and has notified nobody; an ADD gets past
\* line 154 only with the count below SP_MAPDB_RULE_MAX and the output below
\* SP_MAPDB_NO_MATCH, and ERR_INVALIDENTRY is returned for an output at or
\* above SP_MAPDB_NO_MATCH (when the table is not full).
C8_ErrorsChangeNothing ==
    \A w \in Writers :
        /\ wres[w] \in CallerErrors => ~wdirty[w] /\ wnotes[w] = <<>>
        /\ wpc[w] \in {"fill", "lookup", "allochash"} =>
              /\ rule_count < SP_MAPDB_RULE_MAX
              /\ wreq[w].rule_output < SP_MAPDB_NO_MATCH
        /\ wres[w] = "ERR_INVALIDENTRY" =>
              /\ wreq[w].cmd = "ADD"
              /\ wreq[w].rule_output >= SP_MAPDB_NO_MATCH
              /\ rule_count < SP_MAPDB_RULE_MAX
        /\ wres[w] = "ERR_TBLFULL" => wreq[w].cmd = "ADD"

C8_Witness ==
    \E w \in Writers :
        /\ wpc[w] = "unlock"
        /\ wres[w] = "ERR_TBLFULL"
        /\ rule_count = SP_MAPDB_RULE_MAX
        /\ ~wdirty[w]

\* C9: a classify call takes neither the spinlock nor the single_writer bit:
\* in every state, whoever holds them, a call in progress has a next step.
C9_ReadersNeverBlock ==
    \A r \in Readers :
        rpc[r] \in {"chk", "scan"} => ENABLED ReaderStep(r, Kinds, Packets)

C9_Witness ==
    \E r \in Readers :
        /\ rpc[r] \in {"chk", "scan"}
        /\ sp_mapdb_lock = "w1"
        /\ single_writer = 1

\* the rules an ADD request of SpecStale leaves in a node
StaleSubmitted == {NormRule(req) : req \in {q \in StaleRequests : q.cmd = "ADD"}}

\* C10: a linked node holds a complete submitted rule (it is linked only once
\* written and not written afterwards), hence every rule a reader reads from
\* a node is one complete rule submitted by some ADD.
C10_ReadersSeeSubmittedRules ==
    /\ \A n \in LinkedNodes : nrule[n] \in StaleSubmitted
    /\ \A r \in Readers : rlast[r] # NoRule => rlast[r] \in StaleSubmitted

\* C11: a modify with the precedence unchanged swaps the old node for the new
\* one at the same place of the same bucket and repoints the index entry; a
\* reader that stands on the old node keeps finding the old rule there,
\* unchanged, with the successor the new node has.
C11_ReplaceInPlace ==
    \A w \in Writers :
        (wpc[w] \in {"n_mod", "callrcu", "unlock"} /\ wreq[w].cmd = "ADD" /\ wcur[w] # NULL)
        => /\ wcur[w] \notin LinkedNodes
           /\ BucketsOf(wnode[w]) = {NormPrecedence(wreq[w].rule_precedence)}
           /\ \E k \in 1..Len(rule_id_hashmap) : rule_id_hashmap[k] = wnode[w]
           /\ \A r \in Readers :
                (/\ rpc[r] = "scan"
                 /\ rcur[r] = wcur[w]
                 /\ rlast[r] # NoRule
                 /\ Key(rlast[r]) = Key(wreq[w])
                 /\ rlast[r].rule_precedence = NormPrecedence(wreq[w].rule_precedence))
                => /\ nstate[wcur[w]] # "free"
                   /\ nrule[wcur[w]] = rlast[r]
                   /\ next[wcur[w]] = next[wnode[w]]

Succeeded == {"SUCCESS_ADD", "SUCCESS_MODIFY", "SUCCESS_DELETE"}

EventOf(res) ==
    CASE res = "SUCCESS_ADD" -> "ADD"
      [] res = "SUCCESS_MODIFY" -> "MODIFY"
      [] OTHER -> "REMOVE"

\* C12: a successful update notifies exactly once, ADD for an insert, MODIFY
\* for a replace or a move, REMOVE for a delete; the notifier runs with the
\* single_writer bit set (an update called from it finds the bit set), after
\* the lists and the index were changed and before the old node is handed to
\* call_rcu(); no other call notifies.
C12_OneNotification ==
    \A w \in Writers :
        /\ wpc[w] \in {"n_add", "n_mod", "n_rem"} =>
              /\ wnotes[w] = <<>>
              /\ wdirty[w]
              /\ single_writer = 1
              /\ wres[w] = "NONE"
              /\ wpc[w] # "n_add" => nstate[wcur[w]] = "unlinked"
        /\ wpc[w] = "callrcu" =>
              /\ wnotes[w] = << <<IF wreq[w].cmd = "ADD" THEN "MODIFY" ELSE "REMOVE",
                                  wreq[w].id, wreq[w].classifier_type>> >>
              /\ nstate[wcur[w]] = "unlinked"
              /\ single_writer = 1
        /\ wres[w] \in Succeeded =>
              /\ wpc[w] = "unlock"
              /\ single_writer = 1
              /\ wnotes[w] = << <<EventOf(wres[w]), wreq[w].id, wreq[w].classifier_type>> >>
              /\ (wres[w] = "SUCCESS_DELETE") = (wreq[w].cmd = "DELETE")
        /\ (wres[w] \notin Succeeded /\ wpc[w] # "callrcu") => wnotes[w] = <<>>

C12_Witness ==
    \E w, v \in Writers :
        /\ wpc[w] = "callrcu"
        /\ wreq[w].cmd = "ADD"
        /\ Len(wnotes[w]) = 1
        /\ wres[v] = "ERR_SINGLE_WRITER"

\* C13: a flush of an empty table takes no step that changes anything; a
\* flush of a non-empty table, under the spinlock, unlinks the linked nodes
\* one by one, handing each to call_rcu() as it is unlinked, and ends with
\* every bucket empty, the index empty and the count 0.
C13_Flush ==
    [][/\ (fpc = "idle" /\ rule_count = 0) => (fpc' = "idle" /\ sp_mapdb_lock' # Flusher)
       /\ (fpc = "idle" /\ fpc' = "loop") => storeVars' = storeVars
       /\ (sp_mapdb_lock = Flusher /\ LinkedNodes' # LinkedNodes)
          => \E n \in LinkedNodes :
                /\ LinkedNodes' = LinkedNodes \ {n}
                /\ nstate[n] = "linked"
                /\ nstate'[n] = "retired"
       /\ (fpc = "loop" /\ fpc' = "idle")
          => /\ LinkedNodes = {}
             /\ \A i \in Buckets : BucketNodes(i)' = <<>>
             /\ rule_id_hashmap' = <<>>
             /\ rule_count' = 0
             /\ sp_mapdb_lock' = "free"
             /\ nstate' = nstate
      ]_vars

C13_Witness ==
    /\ fpc = "loop"
    /\ rule_count = SP_MAPDB_RULE_MAX
    /\ LinkedNodes = {}
    /\ Cardinality({n \in Nodes : nstate[n] = "retired"}) = SP_MAPDB_RULE_MAX

\* C14: when the kzalloc() of the hashentry fails the node allocated before
\* is freed again, the call returns ERR_ALLOCHASH having changed neither
\* buckets, index nor count and having notified nobody, the key is still not
\* live, and the call goes on to clear the single_writer bit.
C14_HashAllocFailure ==
    \A w \in Writers :
        wres[w] = "ERR_ALLOCHASH" =>
            /\ wpc[w] = "unlock"
            /\ wreq[w].cmd = "ADD"
            /\ nstate[wnode[w]] = "free"
            /\ wnode[w] \notin LinkedNodes
            /\ \A k \in 1..Len(rule_id_hashmap) : rule_id_hashmap[k] # wnode[w]
            /\ Key(wreq[w]) \notin LiveKeys
            /\ ~wdirty[w]
            /\ wnotes[w] = <<>>
            /\ single_writer = 1
            /\ ENABLED Unlock(w)

C14_Witness ==
    \E w \in Writers :
        /\ wres[w] = "ERR_ALLOCHASH"
        /\ wpc[w] = "unlock"
        /\ rule_count = 1
        /\ \A n \in Nodes : nstate[n] # "priv"

(***************************************************************************)
(* SpecSawf: sp_mapdb_rule_apply_sawf() against tables of SAWF and         *)
(* SAWF_SCS rules, the table unchanged while a call runs.                  *)
(***************************************************************************)
\* a rule of the SAWF family on the destination IPv4 address
SawfRule(id, type, prec, output, dst, mask) ==
    [Rule(id, type, prec, output) EXCEPT
        !.flags_sawf = IF mask = 0 THEN {"DST_IPV4"} ELSE {"DST_IPV4", "DST_IPV4_MASK"},
        !.dst_ipv4_addr = dst, !.dst_ipv4_addr_mask = mask]

SawfRequests ==
    {SawfRule(7, "SAWF", 1, 4, 2, 2), SawfRule(8, "SAWF", 0, 5, 1, 0),
     SawfRule(8, "SAWF", 1, 5, 1, 0), Rule(9, "SAWF_SCS", 1, 6),
     Delete(7, "SAWF"), Delete(9, "SAWF_SCS")}

SawfPackets ==
    {[BasePkt EXCEPT !.params.dst_ipv4 = 1], [BasePkt EXCEPT !.params.dst_ipv4 = 3]}

NextSawf ==
    \/ /\ \A r \in Readers : rpc[r] = "idle"
       /\ WriterStep("w1", SawfRequests)
    \/ /\ wpc["w1"] = "idle"
       /\ \E r \in Readers : ReaderStep(r, {"sawf"}, SawfPackets)
    \/ Reclaim

SpecSawf == Init /\ [][NextSawf]_vars

\* the linked nodes in the order a scan meets them
RECURSIVE ScanFrom(_)
ScanFrom(i) == IF i < 0 THEN <<>> ELSE BucketNodes(i) \o ScanFrom(i - 1)
ScanOrder == ScanFrom(TopBucket)

\* the first node in scan order whose rule has this type and is satisfied by
\* the inputs of the call, or NULL
FirstMatch(kind, pass, pkt) ==
    LET hits == {k \in 1..Len(ScanOrder) :
                    /\ nrule[ScanOrder[k]].classifier_type = ScanType(kind, pass)
                    /\ Examine(kind, pass, pkt, nrule[ScanOrder[k]]).hit}
    IN  IF hits = {} THEN NULL
        ELSE ScanOrder[CHOOSE k \in hits : \A j \in hits : k <= j]

\* C15: classify_sawf returns the first SAWF rule in descending scan order
\* that the inputs satisfy; only when no SAWF rule in any bucket is satisfied
\* does it return the first satisfied SAWF_SCS rule; without either, no match.
C15_SawfTwoPasses ==
    \A r \in Readers :
        (rpc[r] = "ret" /\ rkind[r] = "sawf") =>
            LET first == FirstMatch("sawf", 1, rin[r])
                second == FirstMatch("sawf", 2, rin[r])
            IN  IF first # NULL THEN rout[r] = HitOut("sawf", rin[r], nrule[first])
                ELSE IF second # NULL THEN rout[r] = HitOut("sawf", rin[r], nrule[second])
                ELSE rout[r] = NoMatchOut("sawf", rin[r])

(***************************************************************************)
(* SpecMscs: sp_mapdb_apply_mscs() against tables of MSCS rules, the table *)
(* unchanged while a call runs.                                            *)
(***************************************************************************)
\* an MSCS rule without field tests, with its TID bitmap
MscsRule(id, prec, bitmap) ==
    [Rule(id, "MSCS", prec, 0) EXCEPT !.mscs_tid_bitmap = bitmap]

MscsRequests ==
    {MscsRule(7, 1, 4), MscsRule(8, 0, 32), MscsRule(8, 1, SP_RULE_INVALID_MSCS_TID_BITMAP),
     Rule(9, "SCS", 1, 3), Delete(7, "MSCS"), Delete(8, "MSCS")}

MscsPackets ==
    {[BasePkt EXCEPT !.priority = 2], [BasePkt EXCEPT !.priority = 5],
     [BasePkt EXCEPT !.priority = 258]}

NextMscs ==
    \/ /\ \A r \in Readers : rpc[r] = "idle"
       /\ WriterStep("w1", MscsRequests)
    \/ /\ wpc["w1"] = "idle"
       /\ \E r \in Readers : ReaderStep(r, {"mscs"}, MscsPackets)
    \/ Reclaim

SpecMscs == Init /\ [][NextMscs]_vars

\* bit (1 << p) of an 8-bit TID bitmap
TidBit(bitmap, p) == p < 8 /\ BitAnd(Pow2(p), bitmap) # 0

\* the first MSCS rule in scan order that the inputs satisfy and whose valid
\* bitmap holds the bit of the priority, or NULL
FirstAccepting(pkt) ==
    LET hits == {k \in 1..Len(ScanOrder) :
                    LET rule == nrule[ScanOrder[k]]
                    IN  /\ rule.classifier_type = "MSCS"
                        /\ sp_mapdb_rule_match_sawf(rule, pkt.params).ok
                        /\ rule.mscs_tid_bitmap # SP_RULE_INVALID_MSCS_TID_BITMAP
                        /\ TidBit(rule.mscs_tid_bitmap, pkt.priority)}
    IN  IF hits = {} THEN NULL
        ELSE ScanOrder[CHOOSE k \in hits : \A j \in hits : k <= j]

\* C16: classify_mscs returns the caller's priority p, unchanged, with the id
\* of the first MSCS rule in scan order that the inputs satisfy and whose
\* valid mscs_tid_bitmap has bit (1 << p) set; a rule whose bitmap lacks the
\* bit does not end the scan; without such a rule it returns the invalid
\* priority with the invalid rule id.
C16_MscsTidBitmap ==
    \A r \in Readers :
        (rpc[r] = "ret" /\ rkind[r] = "mscs") =>
            LET R == FirstAccepting(rin[r])
            IN  IF R # NULL
                THEN rout[r] = [priority |-> rin[r].priority, rule_id |-> nrule[R].id]
                ELSE rout[r] = [priority |-> SP_RULE_INVALID_PRIORITY,
                                rule_id |-> SP_RULE_INVALID_RULE_ID]

(***************************************************************************)
(* SpecDscp: sp_mapdb_apply() on the empty table, for every DS field value *)
(* of an IPv4, an IPv6 and a non-IP packet.                                *)
(***************************************************************************)
DsFields == 0..255

DscpPackets ==
    {[BasePkt EXCEPT !.protocol = proto, !.h_proto = proto, !.tos = tos] :
        proto \in {"ETH_P_IP", "ETH_P_IPV6", "ETH_P_ARP"}, tos \in DsFields}

NextDscp ==
    \E r \in Readers :
        \/ \E pkt \in DscpPackets : ReadCall(r, "mesh", pkt)
        \/ ReadCheckEmpty(r)
        \/ ReadReturn(r)

SpecDscp == Init /\ [][NextDscp]_vars

\* C17: with the table empty, classify_mesh gives an IPv4 or IPv6 packet the
\* top three bits of its DS field, which is dscp >> 3 of its 6-bit DSCP, a
\* value in 0..7 whatever the two ECN bits are; a packet of another protocol
\* gets SP_MAPDB_RULE_DEFAULT_PCP.
C17_EmptyTableDscp ==
    \A r \in Readers :
        (rpc[r] = "ret" /\ rkind[r] = "mesh" /\ rule_count = 0) =>
            LET dscp == rin[r].tos \div 4
            IN  IF rin[r].protocol \in {"ETH_P_IP", "ETH_P_IPV6"}
                THEN /\ rout[r] = [priority |-> dscp \div 8]
                     /\ rout[r].priority \in 0..7
                ELSE rout[r] = [priority |-> SP_MAPDB_RULE_DEFAULT_PCP]

C17_Witness ==
    \E r \in Readers :
        /\ rpc[r] = "ret"
        /\ rkind[r] = "mesh"
        /\ rule_count = 0
        /\ rin[r].protocol = "ETH_P_IP"
        /\ rin[r].tos = 32 * 4 + 3
        /\ rout[r] = [priority |-> 4]

(***************************************************************************)
(* SpecSense: sp_mapdb_apply() against a MESH rule with sensed fields, the *)
(* table unchanged while a call runs.  Every frame is a tagged IPv4/UDP    *)
(* frame with its headers in place.                                        *)
(***************************************************************************)
SensedFields ==
    {"UP", "SOURCE_MAC", "DST_MAC", "VLAN_ID", "DSCP", "SRC_IPV4", "DST_IPV4",
     "PROTOCOL", "SRC_PORT", "DST_PORT"}

SenseFlag(f) == f \o "_SENSE"

\* MESH rule 5 with these flags; every value field is 1, the VLAN id is 5
SenseRule(flags) ==
    [Rule(5, "MESH", 1, 3) EXCEPT
        !.flags = flags, !.user_priority = 1, !.sa = 1, !.da = 1, !.vlan_id = 5,
        !.dscp = 1, !.src_ipv4_addr = 1, !.dst_ipv4_addr = 1,
        !.protocol_number = IPPROTO_UDP, !.src_port = 1, !.dst_port = 1]

SenseRequests ==
    {SenseRule({f}) : f \in SensedFields}
    \cup {SenseRule({f, SenseFlag(f)}) : f \in SensedFields}
    \cup {SenseRule({"UP", "DSCP"}), SenseRule({"SRC_PORT", "DST_IPV4", "DST_IPV4_SENSE"}),
          Delete(5, "MESH")}

\* a tagged IPv4/UDP frame; tci is the 16-bit TCI (PCP, DEI, VLAN id)
SenseFrame(v, proto, tci) ==
    [BasePkt EXCEPT !.priority = v, !.smac = v, !.dmac = v, !.tos = 4 * v, !.saddr = v,
                    !.daddr = v, !.source = v, !.dest = v, !.ip_protocol = proto,
                    !.h_proto = "ETH_P_8021Q", !.h_vlan_TCI = tci]

SensePackets ==
    {SenseFrame(1, IPPROTO_UDP, 5), SenseFrame(2, IPPROTO_TCP, 6),
     SenseFrame(1, IPPROTO_UDP, 3 * 8192 + 5), SenseFrame(1, IPPROTO_UDP, 6)}

NextSense ==
    \/ /\ \A r \in Readers : rpc[r] = "idle"
       /\ WriterStep("w1", SenseRequests)
    \/ /\ wpc["w1"] = "idle"
       /\ \E r \in Readers : ReaderStep(r, {"mesh"}, SensePackets)
    \/ Reclaim

SpecSense == Init /\ [][NextSense]_vars

\* whether the frame's field equals the rule's value
FieldEquals(f, pkt, rule) ==
    CASE f = "UP" -> pkt.priority = rule.user_priority
      [] f = "SOURCE_MAC" -> pkt.smac = rule.sa
      [] f = "DST_MAC" -> pkt.dmac = rule.da
      [] f = "VLAN_ID" -> pkt.h_vlan_TCI % 4096 = rule.vlan_id
      [] f = "DSCP" -> pkt.tos \div 4 = rule.dscp
      [] f = "SRC_IPV4" -> pkt.saddr = rule.src_ipv4_addr
      [] f = "DST_IPV4" -> pkt.daddr = rule.dst_ipv4_addr
      [] f = "PROTOCOL" -> pkt.ip_protocol = rule.protocol_number
      [] f = "SRC_PORT" -> pkt.source = rule.src_port
      [] OTHER -> pkt.dest = rule.dst_port

FieldSatisfied(f, pkt, rule) == FieldEquals(f, pkt, rule) # (SenseFlag(f) \in rule.flags)

\* C18: a MESH rule matches a frame exactly when every active sensed field
\* is satisfied, a field being satisfied when (field equals rule value) XOR
\* (its _SENSE flag): equal with the flag clear, different with it set.
C18_SenseTruthTable ==
    \A r \in Readers :
        (rpc[r] = "ret" /\ rkind[r] = "mesh" /\ rule_count = 1) =>
            \A n \in LinkedNodes :
                (rout[r] = HitOut("mesh", rin[r], nrule[n]))
                <=> \A f \in SensedFields \cap nrule[n].flags :
                        FieldSatisfied(f, rin[r], nrule[n])

\* C19: classify_sawf, classify_scs and classify_mscs leave the caller's
\* input parameters as they were at the call.
C19_InputsReadOnly ==
    \A r \in Readers :
        (rpc[r] = "ret" /\ rkind[r] \in {"sawf", "scs", "mscs"}) => rpkt[r] = rin[r]

(***************************************************************************)
(* SpecMask: one caller installs SAWF rules that match a masked IPv4       *)
(* address, on the destination or on the source side, for every address    *)
(* and every non-zero mask of two bits; one caller classifies flows over   *)
(* all two-bit address pairs.                                              *)
(***************************************************************************)
MaskSides == {"DST", "SRC"}
MaskAddrs == 0..3

MaskRule(side, addr, mask) ==
    LET r == [Rule(7, "SAWF", 1, 4) EXCEPT
                 !.flags_sawf = {side \o "_IPV4", side \o "_IPV4_MASK"}]
    IN  IF side = "DST"
        THEN [r EXCEPT !.dst_ipv4_addr = addr, !.dst_ipv4_addr_mask = mask]
        ELSE [r EXCEPT !.src_ipv4_addr = addr, !.src_ipv4_addr_mask = mask]

MaskRequests ==
    {MaskRule(s, a, m) : s \in MaskSides, a \in MaskAddrs, m \in MaskAddrs \ {0}}

MaskPackets ==
    {[BasePkt EXCEPT !.params.dst_ipv4 = d, !.params.src_ipv4 = s] :
        d \in MaskAddrs, s \in MaskAddrs}

NextMask ==
    \/ /\ \A r \in Readers : rpc[r] = "idle"
       /\ WriterStep("w1", MaskRequests)
    \/ /\ wpc["w1"] = "idle"
       /\ \E r \in Readers : ReaderStep(r, {"sawf"}, MaskPackets)
    \/ Reclaim

SpecMask == Init /\ [][NextMask]_vars

\* the rules that match an IPv4 address under a mask
MaskedIpv4(rule) ==
    \/ {"DST_IPV4", "DST_IPV4_MASK"} \subseteq rule.flags_sawf
    \/ {"SRC_IPV4", "SRC_IPV4_MASK"} \subseteq rule.flags_sawf

\* evaluating the matcher again on the parameters the first evaluation left
\* behind gives the same result and leaves them as they are
SameAgain(rule, p) ==
    LET once == sp_mapdb_rule_match_sawf(rule, p)
        twice == sp_mapdb_rule_match_sawf(rule, once.params)
    IN  twice = once

\* C20: for every linked rule that matches an IPv4 address under a mask and
\* every input (each offered flow, and the parameters each classify call
\* holds after the rules it has visited), a second evaluation of the SAWF
\* matcher on the masked input gives the result of the first.
C20_MaskedMatchIdempotent ==
    \A n \in LinkedNodes :
        MaskedIpv4(nrule[n]) =>
            /\ \A pkt \in MaskPackets : SameAgain(nrule[n], pkt.params)
            /\ \A r \in Readers : SameAgain(nrule[n], rpkt[r].params)

\* a classify call has returned a hit on a masked rule whose mask changed
\* the caller's address
C20_Witness ==
    \E r \in Readers, n \in LinkedNodes :
        /\ rpc[r] = "ret"
        /\ MaskedIpv4(nrule[n])
        /\ rout[r].rule_id = nrule[n].id
        /\ rpkt[r].params # rin[r].params
        /\ sp_mapdb_rule_match_sawf(nrule[n], rpkt[r].params).ok

(***************************************************************************)
(* SpecDecide: one caller installs and deletes SCS, SAWF and SAWF_SCS      *)
(* rules on the destination address, a masked one ranked above a plain     *)
(* one; one caller runs classify_sawf and classify_scs on flows that       *)
(* satisfy one of them, or neither.                                        *)
(***************************************************************************)
DecideRequests ==
    {ScsRule(7, 1, 4, 1, 2), ScsRule(8, 0, 5, 2, 0),
     SawfRule(7, "SAWF", 1, 4, 1, 2), SawfRule(8, "SAWF_SCS", 0, 5, 2, 0),
     Delete(7, "SCS"), Delete(8, "SCS"), Delete(7, "SAWF"), Delete(8, "SAWF_SCS")}

DecidePackets ==
    {[BasePkt EXCEPT !.params.dst_ipv4 = d] : d \in {0, 2, 3}}

NextDecide ==
    \/ /\ \A r \in Readers : rpc[r] = "idle"
       /\ WriterStep("w1", DecideRequests)
    \/ /\ wpc["w1"] = "idle"
       /\ \E r \in Readers : ReaderStep(r, {"sawf", "scs"}, DecidePackets)
    \/ Reclaim

SpecDecide == Init /\ [][NextDecide]_vars

\* the rule types classify call kind looks at
ScannedTypes(kind) == {ScanType(kind, pass) : pass \in {1, 2}}

\* the linked rules of the scanned types that the caller's inputs satisfy
SatisfiedBy(kind, pkt) ==
    {n \in LinkedNodes :
        /\ nrule[n].classifier_type \in ScannedTypes(kind)
        /\ sp_mapdb_rule_match_sawf(nrule[n], pkt.params).ok}

\* C21: when the table is empty or no rule of the scanned type is satisfied
\* by the inputs of the call, classify_sawf returns the use-DSCP priority
\* with the invalid DSCP-remark, VLAN-PCP-remark, service-class and rule-id
\* sentinels, and classify_scs the invalid priority with the invalid rule id.
C21_NoMatchSentinels ==
    \A r \in Readers :
        (/\ rpc[r] = "ret"
         /\ rkind[r] \in {"sawf", "scs"}
         /\ SatisfiedBy(rkind[r], rin[r]) = {}) =>
            rout[r] = NoMatchOut(rkind[r], rin[r])

(***************************************************************************)
(* SpecLatency: one caller installs and deletes rules of several types     *)
(* that carry latency parameters; one caller asks for the latency          *)
(* parameters of frames with user priority 0 and 1.                        *)
(***************************************************************************)
LatRule(id, type, prec, flags, up, lat) ==
    [Rule(id, type, prec, 0) EXCEPT
        !.flags = flags, !.user_priority = up,
        !.service_interval_dl = lat, !.burst_size_dl = lat + 1,
        !.service_interval_ul = lat + 2, !.burst_size_ul = lat + 3]

LatencyRequests ==
    {LatRule(5, "MESH", 1, {"UP"}, 1, 10), LatRule(6, "SCS", 1, {"UP"}, 0, 20),
     LatRule(6, "SCS", 0, {"UP"}, 0, 24), LatRule(7, "SAWF", 0, {}, 0, 30),
     Delete(5, "MESH"), Delete(6, "SCS"), Delete(7, "SAWF")}

LatencyPackets == {[BasePkt EXCEPT !.priority = p] : p \in {0, 1}}

NextLatency ==
    \/ /\ \A r \in Readers : rpc[r] = "idle"
       /\ WriterStep("w1", LatencyRequests)
    \/ /\ wpc["w1"] = "idle"
       /\ \E r \in Readers : ReaderStep(r, {"latency"}, LatencyPackets)
    \/ Reclaim

SpecLatency == Init /\ [][NextLatency]_vars

\* the first node in scan order, of whatever type, that the generic matcher
\* accepts for this frame
FirstGeneric(pkt) ==
    LET hits == {k \in 1..Len(ScanOrder) : sp_mapdb_rule_match(pkt, nrule[ScanOrder[k]])}
    IN  IF hits = {} THEN NULL
        ELSE ScanOrder[CHOOSE k \in hits : \A j \in hits : k <= j]

\* C22: get_latency_params returns the service interval and burst size,
\* downlink and uplink, of the first rule in descending precedence order, of
\* any type, that the generic matcher accepts; all four are 0 when no rule
\* matches or the table is empty.
C22_LatencyOfFirstMatch ==
    \A r \in Readers :
        (rpc[r] = "ret" /\ rkind[r] = "latency") =>
            LET n == FirstGeneric(rin[r])
            IN  IF n = NULL
                THEN rout[r] = [ service_interval_dl |-> 0, burst_size_dl |-> 0,
                                 service_interval_ul |-> 0, burst_size_ul |-> 0 ]
                ELSE rout[r] = [ service_interval_dl |-> nrule[n].service_interval_dl,
                                 burst_size_dl |-> nrule[n].burst_size_dl,
                                 service_interval_ul |-> nrule[n].service_interval_ul,
                                 burst_size_ul |-> nrule[n].burst_size_ul ]

\* the query passed over a MESH rule in bucket 1 and returned the latency
\* parameters of a rule of another type in bucket 0
C22_Witness ==
    \E r \in Readers :
        /\ rpc[r] = "ret" /\ rkind[r] = "latency"
        /\ Len(BucketNodes(1)) = 1 /\ Len(BucketNodes(0)) = 1
        /\ nrule[BucketNodes(1)[1]].classifier_type = "MESH"
        /\ FirstGeneric(rin[r]) = BucketNodes(0)[1]
        /\ rout[r].burst_size_ul = nrule[BucketNodes(0)[1]].burst_size_ul
        /\ rout[r].burst_size_ul > 0

\* the call of w is a modify that files the rule under another precedence
\* than the node it supersedes
MovesRule(w) ==
    /\ wreq[w].cmd = "ADD"
    /\ wcur[w] # NULL
    /\ nrule[wcur[w]].rule_precedence # nrule[wnode[w]].rule_precedence

QueryNoMem(r, rule_id) ==
    /\ rpc[r] = "idle"
    /\ rpc' = [rpc EXCEPT ![r] = "ret"]
    /\ rkind' = [rkind EXCEPT ![r] = "query"]
    /\ rin' = [rin EXCEPT ![r] = [id |-> rule_id]]
    /\ rout' = [rout EXCEPT ![r] = [status |-> "ENOMEM"]]
    /\ UNCHANGED <<storeVars, lockVars, writerVars, fpc, rpass, ri, rcur, rdepth, rpkt,
                   rdang, rlast>>

\* lines 1600-1660: the count test, the lookup with SP_RULE_TYPE_SAWF and the
\* copy of the rule, all under the spinlock; then the reply or put_failure
QueryLookup(r, rule_id) ==
    /\ rpc[r] = "idle"
    /\ sp_mapdb_lock = "free"
    /\ rpc' = [rpc EXCEPT ![r] = "ret"]
    /\ rkind' = [rkind EXCEPT ![r] = "query"]
    /\ rin' = [rin EXCEPT ![r] = [id |-> rule_id]]
    /\ LET k == sp_mapdb_search_hashentry(rule_id, "SAWF")
       IN  rout' = [rout EXCEPT ![r] =
                      IF rule_count = 0 \/ k = 0 THEN [status |-> "EMSGSIZE"]
                      ELSE [status |-> "reply", rule |-> nrule[rule_id_hashmap[k]]]]
    /\ UNCHANGED <<storeVars, lockVars, writerVars, fpc, rpass, ri, rcur, rdepth, rpkt,
                   rdang, rlast>>

sp_mapdb_rule_query(r, rule_id) ==
    \/ QueryNoMem(r, rule_id)
    \/ QueryLookup(r, rule_id)

(***************************************************************************)
(* SpecQuery: one caller installs and deletes rules of all five types,     *)
(* two of them under the same id; one caller queries ids that are live     *)
(* and ids that are not.                                                   *)
(***************************************************************************)
QueryRequests ==
    {Rule(5, "MESH", 1, 1), Rule(6, "SCS", 0, 2), Rule(6, "MSCS", 1, 3),
     Rule(7, "SAWF", 1, 4), Rule(7, "SAWF", 0, 5), Rule(7, "SAWF_SCS", 0, 6),
     Delete(5, "MESH"), Delete(6, "SCS"), Delete(6, "MSCS"), Delete(7, "SAWF"),
     Delete(7, "SAWF_SCS")}

QueryIds == {5, 6, 7, 9}

NextQuery ==
    \/ /\ \A r \in Readers : rpc[r] = "idle"
       /\ WriterStep("w1", QueryRequests)
    \/ /\ wpc["w1"] = "idle"
       /\ \E r \in Readers :
            \/ \E rule_id \in QueryIds : sp_mapdb_rule_query(r, rule_id)
            \/ ReadReturn(r)
    \/ Reclaim

SpecQuery == Init /\ [][NextQuery]_vars

\* the live rules with this id
LiveWithId(rule_id) == {rule \in LiveRules : rule.id = rule_id}

\* C24: a query that is answered returns a live rule with the requested id
\* whenever a rule of any type (MESH, SAWF, SAWF_SCS, SCS, MSCS) with that id
\* is live, all its fields as stored, and returns nothing when none is.
C24_QueryEveryType ==
    \A r \in Readers :
        (rpc[r] = "ret" /\ rkind[r] = "query" /\ rout[r].status # "ENOMEM") =>
            IF LiveWithId(rin[r].id) = {} THEN rout[r].status = "EMSGSIZE"
            ELSE rout[r].status = "reply" /\ rout[r].rule \in LiveWithId(rin[r].id)

\* the node the index holds for the key of request req, or NULL
LiveNode(req) ==
    LET k == sp_mapdb_search_hashentry(req.id, req.classifier_type)
    IN  IF k = 0 THEN NULL ELSE rule_id_hashmap[k]

\* C25: an ADD whose precedence is the sentinel SP_MAPDB_RULE_MAX_PRECEDENCENUM
\* is rejected only for what an ADD with precedence 0 is rejected for, is
\* stored in bucket 0 with stored precedence 0, and, like an ADD with
\* precedence 0, replaces a rule of its key stored at precedence 0 in place
\* (a same-precedence modify), leaving the new node in bucket 0.
C25_MaxPrecedenceIsBucket0 ==
    [][\A w \in Writers :
          LET req == wreq[w]
              n == wnode[w]
          IN  (req.cmd = "ADD" /\ req.rule_precedence = SP_MAPDB_RULE_MAX_PRECEDENCENUM) =>
                /\ (wpc[w] = "add" /\ wpc'[w] = "unlock") =>
                      /\ wres'[w] \in {"ERR_TBLFULL", "ERR_INVALIDENTRY", "ERR_ALLOCNODE"}
                      /\ wres'[w] = "ERR_TBLFULL" => rule_count = SP_MAPDB_RULE_MAX
                      /\ wres'[w] = "ERR_INVALIDENTRY" =>
                             req.rule_output >= SP_MAPDB_NO_MATCH
                /\ (wpc[w] = "fill" /\ wpc'[w] = "lookup") =>
                      nrule'[n].rule_precedence = 0
                /\ (wpc[w] = "allochash" /\ wpc'[w] = "n_add") =>
                      /\ n \in SeqSet(BucketNodes(0))'
                      /\ BucketsOf(n)' = {0}
                /\ \A cur \in Nodes :
                      (/\ wpc[w] = "lookup" /\ wpc'[w] # "lookup"
                       /\ cur = LiveNode(req)
                       /\ nrule[cur].rule_precedence = 0) =>
                         /\ wpc'[w] = "n_mod"
                         /\ BucketsOf(n)' = {0}
                         /\ BucketsOf(cur)' = {}
                         /\ rule_count' = rule_count]_vars

\* an ADD with the sentinel precedence has replaced, in bucket 0, the rule
\* of its key that an ADD with precedence 0 had put there
C25_Witness ==
    \E w \in Writers :
        /\ wpc[w] = "n_mod"
        /\ wreq[w].rule_precedence = SP_MAPDB_RULE_MAX_PRECEDENCENUM
        /\ nrule[wnode[w]].rule_precedence = 0
        /\ BucketsOf(wnode[w]) = {0}
        /\ nstate[wcur[w]] = "unlinked"
        /\ nrule[wcur[w]].rule_precedence = 0

\* C26: flush changes the buckets, the index and the count only while no
\* update is between taking and releasing the single_writer bit; in
\* particular not while an ADD has dropped the spinlock to allocate its
\* index entry.
C26_FlushSerialized ==
    [][(fpc = "loop" /\ Table' # Table) => \A w \in Writers : ~Inside(w)]_vars

(***************************************************************************)
(* SpecReclaim: one updater of a single key, the flush, one caller of      *)
(* sp_mapdb_apply(), which scans inside rcu_read_lock(), and the RCU       *)
(* callbacks run against each other.  Every caller that has started goes   *)
(* on, and a callback whose grace period is over runs.                     *)
(***************************************************************************)
\* the steps of sp_mapdb_apply()
MeshStep(r) ==
    \/ \E pkt \in Packets : ReadCall(r, "mesh", pkt)
    \/ ReadCheckEmpty(r)
    \/ ReadCheckScan(r)
    \/ ReadVisit(r)
    \/ ReadHit(r)
    \/ ReadBucketEnd(r)
    \/ ReadNoMatch(r)
    \/ ReadReturn(r)

\* the rule of key (5, MESH) is always true at precedence 1 and tests the user
\* priority, which the packet does not have, at precedence 0
ReclaimRequests ==
    {UpRule(5, 0, 1, 1), Rule(5, "MESH", 1, 1), Rule(5, "MESH", 0, SP_MAPDB_NO_MATCH),
     Delete(5, "MESH"), Delete(6, "MESH")}

NextReclaim ==
    \/ WriterStep("w1", ReclaimRequests)
    \/ FlushStep
    \/ \E r \in Readers : MeshStep(r)
    \/ Reclaim

\* an update that has unlinked a node goes on to its call_rcu()
UpdateGoesOn(w) ==
    AddMoveAdd(w) \/ NotifyModify(w) \/ NotifyRemove(w) \/ CallRcu(w)

\* a flush that holds the spinlock goes on to release it
FlushGoesOn == FlushDel \/ FlushEnd

\* a classify call that has started goes on to its return
MeshGoesOn(r) ==
    \/ ReadCheckEmpty(r)
    \/ ReadCheckScan(r)
    \/ ReadVisit(r)
    \/ ReadHit(r)
    \/ ReadBucketEnd(r)
    \/ ReadNoMatch(r)

SpecReclaim ==
    /\ Init /\ [][NextReclaim]_vars
    /\ WF_vars(UpdateGoesOn("w1"))
    /\ WF_vars(FlushGoesOn)
    /\ \A r \in Readers : WF_vars(MeshGoesOn(r))
    /\ \A n \in Nodes : WF_vars(sp_rule_destroy_rcu(n))

\* the nodes the index refers to
IndexedNodes == SeqSet(rule_id_hashmap)

\* what may happen to a node in one step: it leaves the state "unlinked" only
\* by call_rcu(); call_rcu() is given only nodes that are unlinked and not
\* yet retired; a node is freed only by its RCU callback, when the grace
\* period is over and no bucket and no index entry refers to it, or, never
\* having been linked, at line 177
NodeLifecycle ==
    [][\A n \in Nodes :
          /\ (nstate[n] = "unlinked" /\ nstate'[n] # "unlinked") => nstate'[n] = "retired"
          /\ (nstate[n] # "retired" /\ nstate'[n] = "retired") =>
                 nstate[n] \in {"linked", "unlinked"} /\ n \notin LinkedNodes'
          /\ (nstate[n] = "linked" /\ nstate'[n] # "linked") =>
                 nstate'[n] \in {"unlinked", "retired"} /\ n \notin LinkedNodes'
          /\ (nstate[n] = "retired" /\ nstate'[n] # "retired") => nstate'[n] = "free"
          /\ (nstate[n] # "free" /\ nstate'[n] = "free") =>
                 \/ nstate[n] = "priv"
                 \/ /\ nstate[n] = "retired" /\ gp[n] = {}
                    /\ n \notin LinkedNodes /\ n \notin IndexedNodes
          /\ \A w \in Writers :
                 (wpc[w] = "callrcu" /\ wpc'[w] # "callrcu") =>
                     nstate[wcur[w]] = "unlinked"]_vars

\* no free or retired node is linked in a bucket, and none is referred to by
\* the index once the spinlock is free
NoneFreedInUse ==
    \A n \in Nodes :
        nstate[n] \in {"free", "retired"} =>
            /\ n \notin LinkedNodes
            /\ (sp_mapdb_lock = "free" \/ nstate[n] = "free") => n \notin IndexedNodes

\* C27: under any interleaving of update, flush and readers, a node that is
\* unlinked (by a modify, a delete or a flush) is handed to call_rcu() once
\* and is not freed by the call that unlinked it; no node is freed twice or
\* while a bucket or an index entry refers to it; and, the readers leaving
\* their critical sections, no node stays unlinked or retired for ever: each
\* is retired and then freed.
C27_DeferredReclamation ==
    /\ NodeLifecycle
    /\ []NoneFreedInUse
    /\ \A n \in Nodes : []<>(nstate[n] \notin {"unlinked", "retired"})

\* a reader inside its critical section stands on a node that has been
\* unlinked and handed to call_rcu(); the callback waits for the reader
C27_Witness ==
    \E n \in Nodes, r \in Readers :
        /\ nstate[n] = "retired"
        /\ r \in gp[n]
        /\ rpc[r] = "scan" /\ rcur[r] = n /\ rdepth[r] > 0
        /\ ~ENABLED sp_rule_destroy_rcu(n)

(***************************************************************************)
(* The end of a modify that moves the rule (lines 224-238).                *)
(***************************************************************************)
\* the call of w is an ADD for a key whose node cur_rule_node was stored
\* under another precedence than the one the request files the rule under
MoveOf(w) ==
    /\ wreq[w].cmd = "ADD"
    /\ wcur[w] # NULL
    /\ nrule[wcur[w]].rule_precedence # NormPrecedence(wreq[w].rule_precedence)

\* C28: a modify whose new precedence differs from the old one ends (its
\* call_rcu() done, SUCCESS_MODIFY about to be returned) with the new node
\* linked in the bucket of the new precedence and in no other, the old node
\* in no bucket, the index entry of the key pointing to the new node, the
\* old node retired, and the count what it was when the edit began.
C28_MoveEndState ==
    [][\A w \in Writers :
          /\ (wpc[w] = "lookup" /\ wpc'[w] = "move") => rule_count' = rule_count
          /\ (wpc[w] = "move" /\ wpc'[w] # "move") => rule_count' = rule_count
          /\ (wpc[w] = "callrcu" /\ wpc'[w] = "unlock" /\ MoveOf(w)) =>
                /\ wres'[w] = "SUCCESS_MODIFY"
                /\ BucketsOf(wnode[w])' = {NormPrecedence(wreq[w].rule_precedence)}
                /\ BucketsOf(wcur[w])' = {}
                /\ LiveNode(wreq[w])' = wnode[w]
                /\ nstate'[wcur[w]] = "retired"
                /\ rule_count' = Len(rule_id_hashmap') /\ rule_count' > 0]_vars

(***************************************************************************)
(* SpecToken: two callers of sp_mapdb_rule_update() and the flush, with    *)
(* their scheduling.  A caller that holds the single_writer bit runs on:   *)
(* it sleeps nowhere but in the two allocations, which return, and it gets *)
(* the spinlock, which the flush holds for a bounded loop only, in its     *)
(* turn.  The RCU callbacks take neither the bit nor the spinlock and are  *)
(* not run here: a retired node stays retired, and kzalloc() fails when no *)
(* slot is left.                                                           *)
(***************************************************************************)
TokenRequests ==
    {Rule(5, "MESH", 0, 1), Rule(5, "MESH", 1, 1), Rule(6, "MESH", 1, 3),
     Rule(5, "MESH", 0, SP_MAPDB_NO_MATCH), Delete(5, "MESH"),
     [Rule(5, "MESH", 0, 0) EXCEPT !.cmd = "OTHER"]}

NextToken ==
    \/ \E w \in Writers : WriterStep(w, TokenRequests)
    \/ \E w \in Writers, req \in TokenRequests : UpdateBusy(w, req)
    \/ FlushStep

\* the steps of a call between test_and_set_bit_lock() and clear_bit_unlock()
UpdateRunsOn(w) ==
    \/ AddReject(w) \/ AddAllocNodeFail(w) \/ AddAllocNode(w) \/ AddFill(w)
    \/ AddLookupMiss(w) \/ AddAllocHashFail(w) \/ AddInsert(w) \/ AddReplace(w)
    \/ AddMoveDel(w) \/ AddMoveAdd(w) \/ NotifyAdd(w) \/ NotifyModify(w)
    \/ NotifyRemove(w) \/ CallRcu(w) \/ DeleteEmpty(w) \/ DeleteMiss(w)
    \/ DeleteHit(w) \/ Unlock(w)

SpecToken ==
    /\ Init /\ [][NextToken]_vars
    /\ SF_vars(\E w \in Writers : UpdateRunsOn(w))
    /\ WF_vars(FlushGoesOn)

\* what a call that took the bit can return
HeldOutcomes ==
    Succeeded \cup {"ERR_TBLFULL", "ERR_INVALIDENTRY", "ERR_ALLOCNODE", "ERR_ALLOCHASH",
                    "ERR_TBLEMPTY", "ERR_RULENOEXIST", "ERR_UNKNOWNBIT"}

\* C30: every update call that has taken the single_writer bit returns only
\* through clear_bit_unlock(), whatever it returns (a success, table full,
\* invalid entry, a failed allocation, table empty, rule not found, unknown
\* command); a call with a NULL request never takes the bit; so the bit is
\* free again after every update, and a call made while no other call is in
\* progress is never turned away with ERR_SINGLE_WRITER.
C30_TokenAlwaysReleased ==
    /\ [][\A w \in Writers :
            /\ (Inside(w) /\ wpc'[w] \in {"idle", "ret"}) =>
                  /\ wpc[w] = "unlock" /\ wres[w] \in HeldOutcomes
                  /\ single_writer = 1 /\ single_writer' = 0
            /\ (wres'[w] # wres[w] /\ wres'[w] = "ERR_NEWRULE_NULLPTR") =>
                  /\ wpc[w] = "idle" /\ wpc'[w] = "ret"
                  /\ single_writer' = single_writer
            /\ (wres'[w] # wres[w] /\ wres'[w] = "ERR_SINGLE_WRITER") =>
                  \E v \in Writers \ {w} : Inside(v)
            /\ (wres'[w] # wres[w] /\ wres'[w] \in HeldOutcomes) =>
                  wpc'[w] = "unlock" /\ single_writer' = 1]_vars
    /\ []<>(single_writer = 0 /\ \A w \in Writers : ~Inside(w))

\* a call turned away by the full table (the first return of
\* sp_mapdb_rule_add) still holds the bit and is about to release it
C30_Witness ==
    \E w \in Writers :
        /\ wpc[w] = "unlock" /\ wres[w] = "ERR_TBLFULL"
        /\ single_writer = 1
        /\ ENABLED Unlock(w)

(***************************************************************************)
(* SpecMove: a mesh classify call against modifies that move the one rule  *)
(* of the table from one bucket to the other.  The rule is put in place    *)
(* while no scan runs; a scan starts on a table that holds the rule and is *)
(* not being updated; while it runs, the only update that starts is one    *)
(* modify of the rule with another precedence, and that update has not     *)
(* returned when the scan does.  The RCU callbacks are not run: a retired  *)
(* node stays allocated.                                                   *)
(***************************************************************************)
\* the two versions of rule K = (5, MESH): always true, output 1 at
\* precedence 0 and output 2 at precedence 1
MoveRequests == {Rule(5, "MESH", 0, 1), Rule(5, "MESH", 1, 2)}

NextMove ==
    LET Quiet == \A r \in Readers : rpc[r] = "idle"
        MovesNow == {req \in MoveRequests :
                       /\ LiveNode(req) # NULL
                       /\ nrule[LiveNode(req)].rule_precedence
                              # NormPrecedence(req.rule_precedence)}
    IN  \/ Quiet /\ WriterStep("w1", MoveRequests)
        \/ ~Quiet /\ \E req \in MovesNow : UpdateEnter("w1", req)
        \/ ~Quiet /\ \/ AddAllocNodeFail("w1") \/ AddAllocNode("w1") \/ AddFill("w1")
                     \/ AddMoveDel("w1") \/ AddMoveAdd("w1") \/ NotifyModify("w1")
                     \/ CallRcu("w1")
        \/ \E r \in Readers :
              /\ rpc[r] = "idle" => (wpc["w1"] = "idle" /\ LiveKeys # {})
              /\ MeshStep(r)

SpecMove == Init /\ [][NextMove]_vars

\* C29: a classify scan that overlaps one modify-with-move of rule K and no
\* other update returns what a scan of the table before the move or of the
\* table after it returns; K being the only rule and matching the packet in
\* both versions, that is the old or the new output of K, never the no-match
\* decision.
C29_MoveAtomicToScan ==
    \A r \in Readers :
        rpc[r] = "ret" =>
            \E rule \in MoveRequests : rout[r] = HitOut(rkind[r], rin[r], rule)

(***************************************************************************)
(* The walk a scan still has before it.                                    *)
(***************************************************************************)
\* following next from list_head p, the loop test of
\* list_for_each_entry_rcu() meets head h within k loads, none of them
\* through released memory; the head of another bucket is walked over like
\* an entry, as the loop does
RECURSIVE ReachesHead(_, _, _)
ReachesHead(p, h, k) ==
    IF k = 0 \/ p \notin Nodes \cup Heads THEN FALSE
    ELSE IF p \in Nodes /\ nstate[p] = "free" THEN FALSE
    ELSE IF next[p] = h THEN TRUE
    ELSE ReachesHead(next[p], h, k - 1)

\* C31: under any interleaving with a writer or the flush, a classify scan
\* positioned on a node that is replaced, moved, deleted or flushed still
\* reaches the head of the bucket it is traversing after finitely many
\* nodes, so that it goes on to the next lower bucket and ends at bucket 0.
C31_ScanReachesBucketHead ==
    \A r \in Readers :
        /\ rpc[r] # "oops"
        /\ rpc[r] = "scan" =>
              /\ ~rdang[r]
              /\ ReachesHead(rcur[r], PrecHead(ri[r]), MaxNodes + 1)

(***************************************************************************)
(* SpecOrder: sp_mapdb_apply() against two always-true MESH rules of one   *)
(* bucket with different outputs, which an updater adds and deletes in     *)
(* either order; the table is unchanged while a call runs.                 *)
(***************************************************************************)
OrderRequests ==
    {Rule(5, "MESH", 1, 1), Rule(6, "MESH", 1, 3), Delete(5, "MESH"), Delete(6, "MESH")}

NextOrder ==
    \/ /\ \A r \in Readers : rpc[r] = "idle"
       /\ WriterStep("w1", OrderRequests)
    \/ /\ wpc["w1"] = "idle"
       /\ \E r \in Readers : ReaderStep(r, {"mesh"}, Packets)
    \/ Reclaim

SpecOrder == Init /\ [][NextOrder]_vars

\* the table that holds the same rules, each bucket filled in the opposite
\* order of ADDs: the order in which a scan meets its nodes
Reversed(s) == [k \in 1..Len(s) |-> s[Len(s) + 1 - k]]
RECURSIVE OtherOrderFrom(_)
OtherOrderFrom(i) ==
    IF i < 0 THEN <<>> ELSE Reversed(BucketNodes(i)) \o OtherOrderFrom(i - 1)

\* the first node of seq whose MESH rule the frame satisfies, or NULL
FirstMesh(seq, pkt) ==
    LET hits == {k \in 1..Len(seq) :
                    /\ nrule[seq[k]].classifier_type = "MESH"
                    /\ sp_mapdb_rule_match(pkt, nrule[seq[k]])}
    IN  IF hits = {} THEN NULL ELSE seq[CHOOSE k \in hits : \A j \in hits : k <= j]

\* C32: the decision does not depend on the order in which the rules of a
\* bucket were inserted: a classify call returns what it would return on the
\* table that holds the same rules inserted in the other order, also when
\* two rules of one bucket both match and carry different outputs.
C32_InsertionOrderIrrelevant ==
    \A r \in Readers :
        (rpc[r] = "ret" /\ rkind[r] = "mesh" /\ rule_count # 0) =>
            LET other == FirstMesh(OtherOrderFrom(TopBucket), rin[r])
            IN  /\ other # NULL
                /\ rout[r] = HitOut("mesh", rin[r], nrule[other])

\* the decision of the first rule in scan order (pass by pass) whose
\* predicate holds on the inputs as the caller supplied them
OnOriginalInput(kind, pkt) ==
    LET first == FirstMatch(kind, 1, pkt)
        second == IF kind = "sawf" THEN FirstMatch(kind, 2, pkt) ELSE NULL
    IN  IF first # NULL THEN HitOut(kind, pkt, nrule[first])
        ELSE IF second # NULL THEN HitOut(kind, pkt, nrule[second])
        ELSE NoMatchOut(kind, pkt)

\* C33: within one classify_sawf or classify_scs scan, whether a rule matches
\* depends on that rule and on the input fields as the caller supplied them,
\* not on the rules examined before it: the decision is that of the first
\* rule in scan order whose predicate holds on the original input.
C33_MatchOnOriginalInput ==
    \A r \in Readers :
        (rpc[r] = "ret" /\ rkind[r] \in {"sawf", "scs"} /\ rule_count # 0) =>
            rout[r] = OnOriginalInput(rkind[r], rin[r])

(***************************************************************************)
(* SpecSentinel: sp_mapdb_apply() against a MESH rule on the user priority *)
(* whose output is one of the two sentinels, and an SCS rule; the table is *)
(* unchanged while a call runs.                                            *)
(***************************************************************************)
\* MESH rule 5 matches user priority 3: "use the frame's priority" at
\* precedence 1, "use DSCP" at precedence 0; rule 6 is no MESH rule
SentinelRequests ==
    {UpRule(5, 1, SP_MAPDB_USE_UP, 3), UpRule(5, 0, SP_MAPDB_USE_DSCP, 3),
     Rule(6, "SCS", 1, 2), Delete(5, "MESH"), Delete(6, "SCS")}

\* IPv4, IPv6 and non-IP frames with DS field 0xB8 (DSCP 46), priority 3 or 2
SentinelPackets ==
    {[BasePkt EXCEPT !.protocol = proto, !.h_proto = proto, !.tos = 184, !.priority = up] :
        proto \in {"ETH_P_IP", "ETH_P_IPV6", "ETH_P_ARP"}, up \in {2, 3}}

NextSentinel ==
    \/ /\ \A r \in Readers : rpc[r] = "idle"
       /\ WriterStep("w1", SentinelRequests)
    \/ /\ wpc["w1"] = "idle"
       /\ \E r \in Readers : ReaderStep(r, {"mesh"}, SentinelPackets)
    \/ Reclaim

SpecSentinel == Init /\ [][NextSentinel]_vars

\* the priority the DS field of an IP frame stands for
DscpPriority(pkt) == pkt.tos \div 32
IsIp(pkt) == pkt.protocol \in {"ETH_P_IP", "ETH_P_IPV6"}

IPPROTO_ICMP == 1

\* MESH rule 5 (output 3) with these flags and this port in both port
\* fields; the other value fields are 1, the VLAN id is 5
FrameRule(flags, port) ==
    [SenseRule(flags) EXCEPT !.src_port = port, !.dst_port = port]

FrameRequests ==
    {FrameRule({}, 1), FrameRule({"UP"}, 1), FrameRule({"SOURCE_MAC", "DST_MAC"}, 1),
     FrameRule({"UP", "UP_SENSE"}, 1),
     FrameRule({"DSCP"}, 1), FrameRule({"DSCP", "DSCP_SENSE"}, 1),
     FrameRule({"UP", "DST_IPV4", "DST_IPV4_SENSE"}, 1),
     FrameRule({"SRC_PORT"}, 0), FrameRule({"SRC_PORT"}, 1),
     FrameRule({"DST_PORT", "DST_PORT_SENSE"}, 1),
     FrameRule({"VLAN_ID"}, 1), FrameRule({"VLAN_ID", "VLAN_ID_SENSE"}, 1),
     FrameRule({"UP", "VLAN_ID", "VLAN_ID_SENSE"}, 1),
     Delete(5, "MESH")}

\* a frame whose link-layer and IPv4 fields are all 1; proto is skb->protocol,
\* tagged says whether an 802.1Q header (VLAN id 5) follows the addresses
Frame(proto, tagged, ip_protocol) ==
    [BasePkt EXCEPT !.priority = 1, !.smac = 1, !.dmac = 1, !.tos = 4, !.saddr = 1,
                    !.daddr = 1, !.source = 1, !.dest = 1, !.ip_protocol = ip_protocol,
                    !.protocol = proto,
                    !.h_proto = IF tagged THEN "ETH_P_8021Q" ELSE proto,
                    !.h_vlan_TCI = IF tagged THEN 5 ELSE 0]

FramePackets ==
    {Frame(proto, tagged, ipp) :
        proto \in {"ETH_P_IP", "ETH_P_IPV6", "ETH_P_ARP"}, tagged \in BOOLEAN,
        ipp \in {IPPROTO_UDP, IPPROTO_ICMP}}

NextFrames ==
    \/ /\ \A r \in Readers : rpc[r] = "idle"
       /\ WriterStep("w1", FrameRequests)
    \/ /\ wpc["w1"] = "idle"
       /\ \E r \in Readers : ReaderStep(r, {"mesh"}, FramePackets)
    \/ Reclaim

SpecFrames == Init /\ [][NextFrames]_vars

\* the call of r has returned and the one rule of the table decided it
DecidedBy(r, n) ==
    /\ rpc[r] = "ret" /\ rkind[r] = "mesh"
    /\ LinkedNodes = {n}
    /\ rout[r] = HitOut("mesh", rin[r], nrule[n])
    /\ rout[r] # NoMatchOut("mesh", rin[r])

\* the call of r has returned and the one rule of the table did not match
PassedOver(r, n) ==
    /\ rpc[r] = "ret" /\ rkind[r] = "mesh"
    /\ LinkedNodes = {n}
    /\ rout[r] = NoMatchOut("mesh", rin[r])
    /\ rout[r] # HitOut("mesh", rin[r], nrule[n])

LinkFlags == {"UP", "SOURCE_MAC", "DST_MAC", "VLAN_ID"}

C36_PortsNeedTcpOrUdp ==
    \A r \in Readers, n \in Nodes :
        (/\ rpc[r] = "ret" /\ rkind[r] = "mesh" /\ LinkedNodes = {n}
         /\ "ALWAYS_TRUE" \notin nrule[n].flags
         /\ nrule[n].flags \cap {"SRC_PORT", "DST_PORT"} # {}
         /\ rin[r].protocol = "ETH_P_IP"
         /\ rin[r].ip_protocol \notin {IPPROTO_TCP, IPPROTO_UDP}) =>
            PassedOver(r, n)

MacRule(type) ==
    [Rule(7, type, 1, 4) EXCEPT !.flags_sawf = {"DST_MAC"}, !.da = 1, !.ifindex = 1,
                                !.mscs_tid_bitmap = IF type = "MSCS" THEN 1 ELSE @]

MacTypes == {"SAWF", "SAWF_SCS", "SCS", "MSCS"}

MacRequests ==
    {MacRule(type) : type \in MacTypes} \cup {Delete(7, type) : type \in MacTypes}

MacPackets ==
    {[BasePkt EXCEPT !.params.dst_mac = d, !.params.dev_addr = a, !.params.ifindex = i] :
        d \in {1, 2}, a \in {1, 2}, i \in {1, 2}}

NextMac ==
    \/ /\ \A r \in Readers : rpc[r] = "idle"
       /\ WriterStep("w1", MacRequests)
    \/ /\ wpc["w1"] = "idle"
       /\ \E r \in Readers : ReaderStep(r, {"sawf", "scs", "mscs"}, MacPackets)
    \/ Reclaim

SpecMac == Init /\ [][NextMac]_vars

\* the rule type a classify call of this kind reads
ReadsType(kind, type) ==
    \/ kind = "sawf" /\ type \in {"SAWF", "SAWF_SCS"}
    \/ kind = "scs" /\ type = "SCS"
    \/ kind = "mscs" /\ type = "MSCS"

\* C38: in the SAWF-family matcher the destination-MAC field of a rule is
\* satisfied when the input destination MAC equals the rule's; otherwise only
\* when the rule is a SAWF_SCS rule and the device's own address equals the
\* rule's destination MAC and the input interface index equals the rule's;
\* for SAWF, SCS and MSCS rules a destination-MAC mismatch fails the rule.
C38_DstMacFallback ==
    \A r \in Readers, n \in Nodes :
        (/\ rpc[r] = "ret" /\ LinkedNodes = {n}
         /\ ReadsType(rkind[r], nrule[n].classifier_type)) =>
            LET rule == nrule[n]
                p == rin[r].params
                own == p.dev_addr = rule.da /\ p.ifindex = rule.ifindex
                matched == rout[r].rule_id = rule.id
            IN  /\ rout[r] \in {HitOut(rkind[r], rin[r], rule), NoMatchOut(rkind[r], rin[r])}
                /\ p.dst_mac = rule.da => matched
                /\ (p.dst_mac # rule.da /\ rule.classifier_type = "SAWF_SCS") =>
                       (matched <=> own)
                /\ (p.dst_mac # rule.da /\ rule.classifier_type # "SAWF_SCS") => ~matched

\* a SAWF_SCS rule matched a flow to another MAC through the device's own
\* address and interface index
C38_Witness ==
    \E r \in Readers, n \in Nodes :
        /\ rpc[r] = "ret" /\ rkind[r] = "sawf" /\ LinkedNodes = {n}
        /\ nrule[n].classifier_type = "SAWF_SCS"
        /\ rin[r].params.dst_mac # nrule[n].da
        /\ rin[r].params.dev_addr = nrule[n].da
        /\ rout[r].rule_id = nrule[n].id

\* C39: an ADD whose key is live and whose output is valid is not turned
\* away for want of room, also when the table holds SP_MAPDB_RULE_MAX rules:
\* the call leaves line 146-154 for the allocation, never with ERR_TBLFULL.
C39_ModifyAtFullTable ==
    [][\A w \in Writers :
          (/\ wpc[w] = "add" /\ wpc'[w] # "add"
           /\ Key(wreq[w]) \in LiveKeys
           /\ LiveNode(wreq[w]) # NULL
           /\ wreq[w].rule_output < SP_MAPDB_NO_MATCH
           /\ rule_count = SP_MAPDB_RULE_MAX)
          => /\ wres'[w] # "ERR_TBLFULL"
             /\ wpc'[w] = "unlock" => wres'[w] = "ERR_ALLOCNODE"
      ]_vars

\* C40: a key leaves the table only in a step of an update that announces
\* it next (REMOVE at line 279) or that is moving it to another bucket
\* (MODIFY at line 235), and enters it only in a step of an update that
\* announces ADD or MODIFY next; the keys announced and not removed are then
\* the live keys.
C40_EveryRemovalAnnounced ==
    [][/\ \A k \in LiveKeys \ LiveKeys' :
              \E w \in Writers :
                  /\ Inside(w) /\ Key(wreq[w]) = k
                  /\ wpc'[w] \in {"n_rem", "move"}
       /\ \A k \in LiveKeys' \ LiveKeys :
              \E w \in Writers :
                  /\ Inside(w) /\ Key(wreq[w]) = k
                  /\ wpc'[w] \in {"n_add", "n_mod"}
      ]_vars

=============================================================================
